---- MODULE Spec2Model ----
\* A model of the vore daemon (vored) and of the virtual machines it supervises.
\*
\*   SpecVM  one VirtualMachine (vore-core/src/virtual_machine.rs) driven by its
\*           public operations and by its QEMU child (QMP events, child exit).
\*   Spec    the daemon loop (vored/src/daemon.rs): poller, RPC connections,
\*           command queue, machine registry and signals.
\*   SpecDispatch  handle_command alone, after the startup loads, on two
\*           machine names.
EXTENDS Integers, Sequences, FiniteSets, TLC

VARIABLES
    vm,                 \* SpecVM: the VirtualMachine under test (and its child)
    last,               \* SpecVM: what the last operation on vm did
    pc,                 \* Daemon::run: position of the loop
    socket_file,        \* the listener socket file exists on disk
    machines,           \* Daemon.machines: name -> VirtualMachine
    connections,        \* Daemon.connections: slot -> 0 (None) or a connection
    event_key_storage,  \* Daemon.event_key_storage: key -> EventTarget
    poller,             \* the poller's registrations: source -> [key, armed]
    command_queue,      \* Daemon.command_queue
    clients,            \* the peers: connection -> [open, inbuf, nsent]
    backlog,            \* connections waiting in the listener's accept queue
    sig_pending,        \* signal_hook: registered signals delivered, not yet read
    exec_log,           \* the requests executed, in execution order
    responses,          \* the responses written, in write order
    reply,              \* SpecDispatch: what the last request dispatched got
    stream,             \* SpecCodec: bytes the peer wrote, not read yet
    stream_open,        \* SpecCodec: the peer has not closed its end
    buffer,             \* SpecCodec: RpcConnection.buffer
    slot_open,          \* SpecCodec: the connection's slot is Some
    written,            \* SpecCodec: every byte the peer wrote, in order
    dispatched,         \* SpecCodec: the commands appended to the command queue
    input,              \* SpecCodec: what the last handle_input saw and returned
    host,               \* SpecVfio: device -> the driver its driver link names
    vfio,               \* SpecVfio: what the last prepare_vfio was given, returned and wrote
    dirs,               \* SpecHost: the directories that exist
    paths,              \* SpecHost: the paths of the machine's config
    arg,                \* the parser specifications: the input given
    out,                \* the parser specifications: what the function returned
    boot,               \* SpecStartup: what Daemon::run has done so far, in order
    poll                \* SpecPoll: where start is in its wait for the control socket

vars == <<vm, last, pc, socket_file, machines, connections, event_key_storage,
          poller, command_queue, clients, backlog, sig_pending,
          exec_log, responses, reply, stream, stream_open, buffer, slot_open,
          written, dispatched, input, host, vfio, dirs, paths, arg, out, boot, poll>>

daemonVars == <<pc, socket_file, machines, connections, event_key_storage,
                poller, command_queue, clients, backlog, sig_pending,
                exec_log, responses>>

daemonVars_but_pc == <<socket_file, machines, connections, event_key_storage,
                       poller, command_queue, clients, backlog, sig_pending,
                       exec_log, responses>>

vmVars == <<vm, last>>

\* What belongs to one specification only.
codecVars == <<stream, stream_open, buffer, slot_open, written, dispatched, input>>

vfioVars == <<host, vfio>>

fsVars == <<dirs, paths>>

fnVars == <<arg, out, poll>>

moreVars == <<fsVars, fnVars, boot>>

auxVars == <<reply, codecVars, vfioVars, moreVars>>

-----------------------------------------------------------------------------
\* Bounds of the model.

\* children one VirtualMachine may spawn
MaxSpawn == 2
\* QMP events that may sit unread in a control socket
MaxPending == 1

-----------------------------------------------------------------------------
\* VirtualMachine (vore-core/src/virtual_machine.rs)

VirtualMachineState == {"Loaded", "Prepared", "Stopped", "Paused", "Running"}

\* The QMP events the code distinguishes; OTHER is any event it ignores.
Event == {"STOP", "RESUME", "SHUTDOWN", "OTHER"}

\* A VirtualMachine and the child it supervises.
\*   process, control_socket: 0 is None, n > 0 is the n-th child spawned for
\*   this machine (the handle of that child, the socket connected to it).
\*   alive, pending, nspawn are the child's side: whether the child named by
\*   process is running, the events it has written that were not read yet, and
\*   how many children were spawned.
new(name) ==
    [name |-> name, state |-> "Loaded", process |-> 0, control_socket |-> 0,
     alive |-> FALSE, pending |-> <<>>, nspawn |-> 0]

name_of(m) == m.name

info(m) == [name |-> name_of(m), state |-> m.state]

control_stream(m) == m.control_socket

\* The control socket is connected to a child that still serves it.
SocketLive(m) ==
    m.control_socket # 0 /\ m.control_socket = m.process /\ m.alive

\* The result of an operation: the machine after it, Ok or Err, the QMP
\* traffic it sent, whether it spawned a child.
\* sent is a set of [cmd, st, attached]: st is the machine state when cmd was
\* written, attached says it went over the attached control socket.
Ret(m, ok, sent) == [vm |-> m, ok |-> ok, sent |-> sent, spawned |-> FALSE]

Sent(m, cmd) == [cmd |-> cmd, st |-> m.state, attached |-> TRUE]

\* Variants of the event match: a SHUTDOWN that unloads the machine, a STOP
\* that pauses a Stopped machine too, a RESUME that is ignored.
EventState_ShutdownUnloads(st, e) ==
    CASE e = "STOP"     -> IF st # "Stopped" THEN "Paused" ELSE st
      [] e = "RESUME"   -> "Running"
      [] e = "SHUTDOWN" -> "Loaded"
      [] OTHER          -> st

EventState_StopAlwaysPauses(st, e) ==
    CASE e = "STOP"     -> "Paused"
      [] e = "RESUME"   -> "Running"
      [] e = "SHUTDOWN" -> "Stopped"
      [] OTHER          -> st

EventState_ResumeIgnored(st, e) ==
    CASE e = "STOP"     -> IF st # "Stopped" THEN "Paused" ELSE st
      [] e = "SHUTDOWN" -> "Stopped"
      [] OTHER          -> st

\* One event of the match in process_qmp_events.
EventState(st, e) ==
    CASE e = "STOP"     -> IF st # "Stopped" THEN "Paused" ELSE st
      [] e = "RESUME"   -> "Running"
      [] e = "SHUTDOWN" -> "Stopped"
      [] OTHER          -> st

RECURSIVE ApplyEvents(_, _)
ApplyEvents(st, evs) ==
    IF evs = <<>> THEN st
    ELSE ApplyEvents(EventState(st, Head(evs)), Tail(evs))

\* process_qmp_events after a QMP round trip that succeeded: the round trip
\* has read everything the child wrote so far into the event queue.
process_qmp_events(m) ==
    IF m.control_socket = 0 THEN m
    ELSE [m EXCEPT !.state = ApplyEvents(m.state, m.pending), !.pending = <<>>]

\* boop: qmp.nop() on the attached socket, then process_qmp_events. The nop
\* fails when the peer is gone, and boop returns before the events are looked at.
boop(m) ==
    IF m.control_socket = 0 THEN Ret(m, TRUE, {})
    ELSE IF ~SocketLive(m) THEN Ret(m, FALSE, {Sent(m, "nop")})
    ELSE Ret(process_qmp_events(m), TRUE, {Sent(m, "nop")})

\* What the child does with a command before it replies.
\*   stop: emits STOP. quit: may emit SHUTDOWN before the reply (shutdownFirst)
\*   and exits. system_powerdown: only asks the guest.
ChildAfter(m, cmd, shutdownFirst) ==
    CASE cmd = "stop" -> [m EXCEPT !.pending = Append(@, "STOP")]
      [] cmd = "quit" ->
            [m EXCEPT !.pending = IF shutdownFirst THEN Append(@, "SHUTDOWN") ELSE @,
                      !.alive = FALSE]
      [] OTHER -> m

\* What the socket does to a command, chosen by the environment:
\*   shutdownFirst: quit's SHUTDOWN event is written before the reply;
\*   lost: the child closes the socket before its reply to quit is read;
\*   dead: the io error a socket whose peer is gone gives, UnexpectedEof
\*   ("eof") or another kind ("err").
QmpEnv == [shutdownFirst : BOOLEAN, lost : BOOLEAN, dead : {"eof", "err"}]

QuietEnv == [shutdownFirst |-> FALSE, lost |-> FALSE, dead |-> "err"]

\* send_qmp_command: execute on the attached socket, then process_qmp_events.
\* res is "ok", "eof" (io error UnexpectedEof) or "err" (any other error);
\* on an error the function returns before process_qmp_events.
send_qmp_command(m, cmd, e) ==
    IF m.control_socket = 0 THEN [vm |-> m, res |-> "err", sent |-> {}]
    ELSE IF ~SocketLive(m)
         THEN [vm |-> m, res |-> e.dead, sent |-> {Sent(m, cmd)}]
    ELSE IF cmd = "quit" /\ e.lost
         THEN [vm |-> [m EXCEPT !.alive = FALSE], res |-> "eof",
               sent |-> {Sent(m, cmd)}]
    ELSE [vm |-> process_qmp_events(ChildAfter(m, cmd, e.shutdownFirst)),
          res |-> "ok", sent |-> {Sent(m, cmd)}]

pause(m) ==
    IF m.state # "Running" THEN Ret(m, TRUE, {})
    ELSE LET r == send_qmp_command(m, "stop", QuietEnv)
         IN  Ret(r.vm, r.res = "ok", r.sent)

\* A variant of stop without the guard on Stopped.
stop_Unguarded(m) ==
    IF m.process = 0 \/ m.control_socket = 0
    THEN Ret(m, TRUE, {})
    ELSE LET r == send_qmp_command(m, "system_powerdown", QuietEnv)
         IN  Ret(r.vm, r.res = "ok", r.sent)

stop(m) ==
    IF m.process = 0 \/ m.control_socket = 0 \/ m.state = "Stopped"
    THEN Ret(m, TRUE, {})
    ELSE LET r == send_qmp_command(m, "system_powerdown", QuietEnv)
         IN  Ret(r.vm, r.res = "ok", r.sent)

\* What the quit command of quit comes back with: "none" when quit sends
\* none, else the result of send_qmp_command.
quit_result(m, e) ==
    IF m.control_socket = 0 THEN "none" ELSE send_qmp_command(m, "quit", e).res

\* A variant of quit that returns every error of the command.
quit_Strict(m, e) ==
    IF m.control_socket = 0 THEN Ret(m, TRUE, {})
    ELSE LET r == send_qmp_command(m, "quit", e)
         IN  Ret(r.vm, r.res = "ok", r.sent)

\* quit: an UnexpectedEof from the command is success, any other error is
\* returned.
quit(m, e) ==
    IF m.control_socket = 0 THEN Ret(m, TRUE, {})
    ELSE LET r == send_qmp_command(m, "quit", e)
         IN  Ret(r.vm, r.res \in {"ok", "eof"}, r.sent)

\* The results of the sub-steps of prepare, and bcollect over them: Ok when
\* none of them is an error.
PrepareSteps == [disks : BOOLEAN, vfio : BOOLEAN, shm : BOOLEAN, sockets : BOOLEAN]

bcollect(r) == r.disks /\ r.vfio /\ r.shm /\ r.sockets

\* A variant of prepare that moves to Prepared whatever the sub-steps returned.
prepare_Unchecked(m, stepsOk) ==
    Ret(IF m.state = "Loaded" THEN [m EXCEPT !.state = "Prepared"] ELSE m,
        stepsOk, {})

\* A variant of prepare that moves to Prepared from any state.
prepare_FromAnyState(m, stepsOk) ==
    IF ~stepsOk THEN Ret(m, FALSE, {})
    ELSE Ret([m EXCEPT !.state = "Prepared"], TRUE, {})

\* prepare: stepsOk says that every sub-step (disks, vfio, shm, sockets)
\* returned Ok.
prepare(m, stepsOk) ==
    IF ~stepsOk THEN Ret(m, FALSE, {})
    ELSE Ret(IF m.state = "Loaded" THEN [m EXCEPT !.state = "Prepared"] ELSE m,
             TRUE, {})

\* The points at which start can fail once the child is spawned, in the order
\* of the code: the control socket never comes up, the child quits early, the
\* handshake, pinning, cont, the nop that drains the first events.
StartFailure == {"socket", "early", "handshake", "pin", "cont", "nop"}

\* The QMP traffic of start up to the point it fails at ("none": no failure).
\* It goes over the new stream, which is attached only after the nop.
StartSent(st, fail) ==
    LET upto == CASE fail \in {"socket", "early"} -> {}
                  [] fail \in {"handshake", "pin"} -> {"qmp_capabilities"}
                  [] fail = "cont" -> {"qmp_capabilities", "cont"}
                  [] OTHER -> {"qmp_capabilities", "cont", "nop"}
    IN  {[cmd |-> c, st |-> st, attached |-> FALSE] : c \in upto}

\* The events the new child has written when start drains them: cont makes
\* QEMU emit RESUME before it replies; extra are events it ignores.
StartupEvents(extra) == <<"RESUME">> \o extra

\* start. c chooses what the environment does:
\*   stepsOk (prepare), spawnOk (the command line is built and the child
\*   spawned), fail ("none" or a StartFailure), extra (more startup events).
start(m, c) ==
    IF m.process # 0 /\ m.alive THEN Ret(m, TRUE, {})
    ELSE
    LET p == IF m.state = "Loaded" THEN prepare(m, c.stepsOk) ELSE Ret(m, TRUE, {})
    IN
    IF ~p.ok THEN Ret(m, FALSE, {})
    ELSE IF ~c.spawnOk THEN Ret(p.vm, FALSE, {})
    ELSE
    LET id == p.vm.nspawn + 1
        spawned == [p.vm EXCEPT !.process = id, !.alive = TRUE, !.nspawn = id]
    IN
    IF c.fail # "none"
    THEN \* kill and reap: self.process.take()
         [vm |-> [spawned EXCEPT !.process = 0, !.alive = FALSE],
          ok |-> FALSE, sent |-> StartSent(spawned.state, c.fail), spawned |-> TRUE]
    ELSE [vm |-> process_qmp_events(
                    [spawned EXCEPT !.control_socket = id,
                                    !.pending = StartupEvents(c.extra)]),
          ok |-> TRUE, sent |-> StartSent(spawned.state, "none"), spawned |-> TRUE]

StartChoice ==
    [stepsOk : BOOLEAN, spawnOk : BOOLEAN, fail : StartFailure \cup {"none"},
     extra : {<<>>, <<"OTHER">>}]

\* Once MaxSpawn children were spawned, a further spawn fails.
StartChoices(m) == {c \in StartChoice : m.nspawn < MaxSpawn \/ ~c.spawnOk}

\* The child writes an event to the control socket.
guest_event(m, e) == [m EXCEPT !.pending = Append(@, e)]

\* The child exits.
child_exit(m) == [m EXCEPT !.alive = FALSE]

-----------------------------------------------------------------------------
\* SpecVM: one machine and its operations.

NoOp == [op |-> "new", ok |-> TRUE, sent |-> {}, spawned |-> FALSE,
         pre |-> new("vm1")]

Did(op, r) ==
    /\ vm' = r.vm
    /\ last' = [op |-> op, ok |-> r.ok, sent |-> r.sent, spawned |-> r.spawned,
                pre |-> vm]
    /\ UNCHANGED <<daemonVars, auxVars>>

VPrepare ==
    \E steps \in PrepareSteps :
        LET r == prepare(vm, bcollect(steps))
        IN  /\ vm' = r.vm
            /\ last' = [op |-> "prepare", ok |-> r.ok, sent |-> r.sent,
                        spawned |-> r.spawned, pre |-> vm, steps |-> steps]
            /\ UNCHANGED <<daemonVars, auxVars>>

VStart == \E c \in StartChoices(vm) : Did("start", start(vm, c))

VStop == Did("stop", stop(vm))

VPause == Did("pause", pause(vm))

VQuit == \E e \in QmpEnv : Did("quit", quit(vm, e))

VBoop == Did("boop", boop(vm))

VGuestEvent ==
    \E e \in Event :
        /\ SocketLive(vm)
        /\ Len(vm.pending) < MaxPending
        /\ vm' = guest_event(vm, e)
        /\ last' = [op |-> "guest", ok |-> TRUE, sent |-> {}, spawned |-> FALSE,
                    pre |-> vm]
        /\ UNCHANGED <<daemonVars, auxVars>>

VChildExit ==
    /\ vm.process # 0 /\ vm.alive
    /\ vm' = child_exit(vm)
    /\ last' = [op |-> "exit", ok |-> TRUE, sent |-> {}, spawned |-> FALSE,
                pre |-> vm]
    /\ UNCHANGED <<daemonVars, auxVars>>

InitVM ==
    /\ vm = new("vm1")
    /\ last = NoOp

NextVM ==
    \/ VPrepare
    \/ VStart
    \/ VStop
    \/ VPause
    \/ VQuit
    \/ VBoop
    \/ VGuestEvent
    \/ VChildExit

-----------------------------------------------------------------------------
\* The daemon (vored/src/daemon.rs)

\* connections a run accepts, requests its clients write
MaxConns == 2
MaxReqs == 2
\* event targets the table may hold when a request is dispatched on its own
MaxTargets == 3
\* definition files read at startup
MaxDefs == 2
\* bound signals that may be delivered outside wait and stay pending
MaxDeferred == 1

\* The machine names of the model. The loop is explored with the requests that
\* name one machine, command dispatch alone with two.
Names == {"a", "b"}
LoopNames == {"a"}

\* The requests of rpc/calls.rs; name is "-" where the request has none.
Named == {"load", "prepare", "start", "stop", "unload", "kill"}
Unnamed == {"info", "list", "disk_presets"}
Request(names) ==
    [query : Named, name : names] \cup [query : Unnamed, name : {"-"}]

\* EventTarget
Target(kind, name, slot) == [kind |-> kind, name |-> name, slot |-> slot]
TargetNone == Target("None", "-", 0)
RpcListener == Target("RpcListener", "-", 0)
Machine(n) == Target("Machine", n, 0)
RpcConnection(id) == Target("RpcConnection", "-", id)

\* The sources the poller watches: the listener, the stream of a connection,
\* the control socket of a machine's child.
Src(kind, name, n) == [kind |-> kind, name |-> name, n |-> n]
ListenerSrc == Src("listener", "-", 0)
ConnSrc(j) == Src("conn", "-", j)
VmSrc(n, child) == Src("vm", n, child)

\* Index of the first element of s that satisfies P, 0 when there is none.
RECURSIVE FirstIndex(_, _, _)
FirstIndex(s, x, i) ==
    IF i > Len(s) THEN 0
    ELSE IF s[i] = x THEN i
    ELSE FirstIndex(s, x, i + 1)

\* add_target: the first None slot, else a new one. Keys and slots count from
\* 1 here, from 0 in the code.
add_target(eks, t) ==
    LET i == FirstIndex(eks, TargetNone, 1)
    IN  IF i # 0 THEN [eks |-> [eks EXCEPT ![i] = t], key |-> i]
        ELSE [eks |-> Append(eks, t), key |-> Len(eks) + 1]

\* add_rpc_connection: the first empty slot, else a new one.
add_rpc_connection(conns, j) ==
    LET i == FirstIndex(conns, 0, 1)
    IN  IF i # 0 THEN [conns |-> [conns EXCEPT ![i] = j], id |-> i]
        ELSE [conns |-> Append(conns, j), id |-> Len(conns) + 1]

\* Poller::add, Poller::modify and the removal that closing a source brings.
Registered(pol, src) == \E r \in pol : r.src = src
poller_add(pol, src, key) == pol \cup {[src |-> src, key |-> key, armed |-> TRUE]}
poller_modify(pol, src, key) ==
    {r \in pol : r.src # src} \cup {[src |-> src, key |-> key, armed |-> TRUE]}
poller_close(pol, src) == {r \in pol : r.src # src}

\* A variant of mount_machine that keys the registry by load order.
mount_machine_ByOrder(ms, m) ==
    LET k == IF DOMAIN ms = {} THEN "a" ELSE "b"
    IN  [n \in DOMAIN ms \cup {k} |-> IF n = k THEN m ELSE ms[n]]

\* mount_machine: insert under the machine's name.
mount_machine(ms, m) ==
    [n \in DOMAIN ms \cup {name_of(m)} |-> IF n = name_of(m) THEN m ELSE ms[n]]

\* The control socket a machine holds is closed when the machine is dropped or
\* the socket replaced.
DropSocket(pol, n, m) ==
    IF m.control_socket # 0 THEN poller_close(pol, VmSrc(n, m.control_socket))
    ELSE pol

\* load_virtual_machine: a new machine mounted under its name.
load_virtual_machine(d, n) ==
    [d EXCEPT !.machines = mount_machine(d.machines, new(n)),
              !.poller = IF n \in DOMAIN d.machines
                         THEN DropSocket(d.poller, n, d.machines[n]) ELSE @]

\* What the environment decides while a command is handled.
CmdChoice ==
    [start : StartChoice, qmp : QmpEnv, stepsOk : BOOLEAN, presetsOk : BOOLEAN]

QuietStart == [stepsOk |-> TRUE, spawnOk |-> TRUE, fail |-> "none", extra |-> <<>>]

\* The choices that matter to a command; the others are pinned.
ChoicesFor(d, cmd) ==
    LET pin == [start |-> QuietStart, qmp |-> QuietEnv, stepsOk |-> TRUE,
                presetsOk |-> TRUE]
        known == cmd.name \in DOMAIN d.machines
    IN  CASE cmd.query = "start" /\ known ->
                {[pin EXCEPT !.start = c] : c \in StartChoices(d.machines[cmd.name])}
          [] cmd.query = "kill" /\ known -> {[pin EXCEPT !.qmp = e] : e \in QmpEnv}
          [] cmd.query = "prepare" /\ known ->
                {[pin EXCEPT !.stepsOk = b] : b \in BOOLEAN}
          [] cmd.query = "disk_presets" ->
                {[pin EXCEPT !.presetsOk = b] : b \in BOOLEAN}
          [] OTHER -> {pin}

\* The answer of handle_command: the daemon after it, Ok with the tag of the
\* response, or Err with a message ("failed": any message not told apart).
Answer(d, ok, tag) ==
    [d |-> d, ok |-> ok, answer |-> IF ok THEN tag ELSE "error",
     error |-> IF ok THEN <<>> ELSE <<"failed">>]

NoMachineError(n) == <<"No machine with the name ", n, " exists">>

\* A variant of NoMachine that loads the machine that was asked for.
NoMachine_Mounts(d, n) ==
    [Answer(load_virtual_machine(d, n), FALSE, "error") EXCEPT
        !.error = NoMachineError(n)]

NoMachine(d, n) == [Answer(d, FALSE, "error") EXCEPT !.error = NoMachineError(n)]

SetMachine(d, n, m) == [d EXCEPT !.machines[n] = m]

\* The Start arm of handle_command.
handle_start(d, n, c) ==
    IF n \notin DOMAIN d.machines THEN NoMachine(d, n)
    ELSE
    LET old == d.machines[n]
        r == start(old, c.start)
        d1 == [SetMachine(d, n, r.vm) EXCEPT
                  !.poller = IF r.vm.control_socket # old.control_socket
                             THEN DropSocket(d.poller, n, old) ELSE @]
    IN
    IF ~r.ok THEN Answer(d1, FALSE, "error")
    ELSE IF control_stream(r.vm) = 0 THEN Answer(d1, TRUE, "start")
    ELSE
    LET t == add_target(d1.event_key_storage, Machine(n))
        src == VmSrc(n, control_stream(r.vm))
        d2 == [d1 EXCEPT !.event_key_storage = t.eks]
    IN  \* Poller::add fails on a source that is registered already
        IF Registered(d2.poller, src) THEN Answer(d2, FALSE, "error")
        ELSE Answer([d2 EXCEPT !.poller = poller_add(@, src, t.key)], TRUE, "start")

\* handle_command: d is the daemon (machines, event_key_storage, poller).
handle_command(d, cmd, c) ==
    LET n == cmd.name
        known == n \in DOMAIN d.machines
    IN
    CASE cmd.query = "info" -> Answer(d, TRUE, "info")
      [] cmd.query = "list" -> Answer(d, TRUE, "list")
      [] cmd.query = "load" -> Answer(load_virtual_machine(d, n), TRUE, "load")
      [] cmd.query = "prepare" ->
            IF ~known THEN NoMachine(d, n)
            ELSE LET r == prepare(d.machines[n], c.stepsOk)
                 IN  Answer(SetMachine(d, n, r.vm), r.ok, "prepare")
      [] cmd.query = "start" -> handle_start(d, n, c)
      [] cmd.query = "stop" ->
            IF ~known THEN NoMachine(d, n)
            ELSE LET r == stop(d.machines[n])
                 IN  Answer(SetMachine(d, n, r.vm), r.ok, "start")
      [] cmd.query = "unload" ->
            [Answer(d, FALSE, "error") EXCEPT !.error = <<"Unimplemented">>]
      [] cmd.query = "kill" ->
            IF ~known THEN NoMachine(d, n)
            ELSE LET r == quit(d.machines[n], c.qmp)
                 IN  Answer(SetMachine(d, n, r.vm), r.ok, "start")
      [] OTHER -> Answer(d, c.presetsOk, "disk_presets")

\* The daemon's own state and the sockets it reads, as one value for the
\* operators: failed says that a handler returned an error to run.
Daemon ==
    [machines |-> machines, event_key_storage |-> event_key_storage,
     poller |-> poller, connections |-> connections,
     command_queue |-> command_queue, clients |-> clients, backlog |-> backlog,
     failed |-> FALSE]

SetDaemon(d) ==
    /\ machines' = d.machines
    /\ event_key_storage' = d.event_key_storage
    /\ poller' = d.poller
    /\ connections' = d.connections
    /\ command_queue' = d.command_queue
    /\ clients' = d.clients
    /\ backlog' = d.backlog

\* The process has ended: what it held is gone. Only the socket file stays
\* behind, unless run removed it.
Gone(how) ==
    /\ pc' = how
    /\ machines' = <<>>
    /\ event_key_storage' = <<>>
    /\ poller' = {}
    /\ connections' = <<>>
    /\ command_queue' = <<>>
    /\ clients' = <<>>
    /\ backlog' = <<>>
    /\ sig_pending' = {}
    /\ exec_log' = <<>>
    /\ responses' = <<>>

Running == pc \in {"init", "wait", "commands"}

\* Daemon::new and Daemon::init: the signals SIGINT and SIGHUP are bound, the
\* socket is bound, the listener is the first event target.
RegisteredSignals == {"SIGINT", "SIGHUP"}
Signal == {"SIGINT", "SIGTERM", "SIGHUP"}

\* What a command changed of the daemon.
Changed(d, e) ==
    {f \in {"machines", "event_key_storage", "poller"} : d[f] # e[f]}

NoReply ==
    [query |-> "-", name |-> "-", known |-> FALSE, ok |-> TRUE, answer |-> "-",
     error |-> <<>>, changed |-> {}, qmp |-> "none"]

\* A handle_input that has not run.
NoInput == [data |-> <<>>, eof |-> FALSE, commands |-> <<>>, still_open |-> TRUE]

\* The connection of SpecCodec is accepted, with an empty buffer.
InitCodec ==
    /\ stream = <<>>
    /\ stream_open = TRUE
    /\ buffer = <<>>
    /\ slot_open = TRUE
    /\ written = <<>>
    /\ dispatched = <<>>
    /\ input = NoInput

\* The PCI devices of the model and the drivers a device may be bound to
\* ("": no driver link).
Dev == {1, 2}
Driver == {"", "vfio-pci", "e1000", "nvidia"}

\* A prepare_vfio that has not run.
NoVfio ==
    [devs |-> {}, execute_fixes |-> FALSE, force |-> FALSE,
     before |-> [d \in Dev |-> ""], results |-> <<>>, writes |-> <<>>]

\* Outside SpecVfio the host has the devices unbound.
InitVfio ==
    /\ host = [d \in Dev |-> ""]
    /\ vfio = NoVfio

\* The paths of a config that names none, and a parser that was not called.
NoPaths == [mem_path |-> "", socket_path |-> ""]

NoCall == [fn |-> "none"]

\* A start that has not spawned its child.
NoPoll == [at |-> "none", time |-> 0, rounds |-> 0, connected |-> FALSE,
           result |-> "none"]

\* A run that has not begun: nothing logged, no machine flagged for
\* reservation or auto-start, no definition file seen.
NoBoot == [log |-> <<>>, files |-> <<>>, reserve |-> {}, auto_start |-> {},
           order |-> <<>>]

\* Outside their specifications nothing exists on disk, nothing was parsed
\* and run has not begun.
InitMore ==
    /\ dirs = {}
    /\ paths = NoPaths
    /\ arg = NoCall
    /\ out = NoCall
    /\ poll = NoPoll
    /\ boot = NoBoot

InitAux ==
    /\ reply = NoReply
    /\ InitCodec
    /\ InitVfio
    /\ InitMore

Init ==
    /\ InitVM
    /\ InitAux
    /\ pc = "init"
    /\ socket_file = TRUE
    /\ machines = <<>>
    /\ connections = <<>>
    /\ event_key_storage = <<RpcListener>>
    /\ poller = {[src |-> ListenerSrc, key |-> 1, armed |-> TRUE]}
    /\ command_queue = <<>>
    /\ clients = <<>>
    /\ backlog = <<>>
    /\ sig_pending = {}
    /\ exec_log = <<>>
    /\ responses = <<>>

\* The definition files found at startup: any sequence of configs, two files
\* may carry the same name.
DefFiles(names) == UNION {[1 .. k -> names] : k \in 0 .. MaxDefs}

RECURSIVE LoadAll(_, _)
LoadAll(d, files) ==
    IF files = <<>> THEN d
    ELSE LoadAll(load_virtual_machine(d, Head(files)), Tail(files))

\* load_definitions: the daemon after the files of the directory are loaded.
load_definitions(d, files) == LoadAll(d, files)

\* run, before the loop: load_definitions loads every definition file found.
LoadDefinitions ==
    /\ pc = "init"
    /\ \E files \in DefFiles(LoopNames) : SetDaemon(load_definitions(Daemon, files))
    /\ pc' = "wait"
    /\ UNCHANGED <<vmVars, auxVars>>
    /\ UNCHANGED <<socket_file, sig_pending, exec_log, responses>>

\* A source is readable: a connection waits to be accepted, a stream has data
\* or is at its end, a control socket has events or its peer is gone.
Readable(src) ==
    CASE src.kind = "listener" -> backlog # <<>>
      [] src.kind = "conn" -> clients[src.n].inbuf # <<>> \/ ~clients[src.n].open
      [] OTHER ->
            /\ src.name \in DOMAIN machines
            /\ LET m == machines[src.name]
               IN  m.control_socket = src.n /\ (m.pending # <<>> \/ ~SocketLive(m))

Orders(S) ==
    {q \in [1 .. Cardinality(S) -> S] : \A i, j \in 1 .. Cardinality(S) : q[i] = q[j] => i = j}

\* accept_rpc_connections: every waiting connection gets a slot, an event
\* target and a registration.
RECURSIVE accept_rpc_connections(_)
accept_rpc_connections(d) ==
    IF d.backlog = <<>> THEN d
    ELSE LET j == Head(d.backlog)
             c == add_rpc_connection(d.connections, j)
             t == add_target(d.event_key_storage, RpcConnection(c.id))
         IN  accept_rpc_connections(
                 [d EXCEPT !.connections = c.conns,
                           !.event_key_storage = t.eks,
                           !.poller = poller_add(@, ConnSrc(j), t.key),
                           !.backlog = Tail(@)])

\* The RpcListener arm: re-arm the listener, accept.
EventListener(d, key) ==
    accept_rpc_connections([d EXCEPT !.poller = poller_modify(@, ListenerSrc, key)])

\* The Machine arm: boop, then re-arm the machine's control socket. An error
\* of boop is returned to run.
EventMachine(d, key, n) ==
    LET r == boop(d.machines[n])
        d1 == SetMachine(d, n, r.vm)
    IN  IF ~r.ok THEN [d1 EXCEPT !.failed = TRUE]
        ELSE IF control_stream(r.vm) = 0 THEN d1
        ELSE [d1 EXCEPT !.poller =
                 poller_modify(@, VmSrc(n, control_stream(r.vm)), key)]

\* handle_input: read to the end of what was written; every line is a command
\* of this slot; still_open unless the peer has closed.
handle_input(own_id, c) ==
    [still_open |-> c.open,
     commands |-> [i \in 1 .. Len(c.inbuf) |-> [slot |-> own_id, cmd |-> c.inbuf[i]]]]

\* The RpcConnection arm: re-arm the stream if it is still open, else empty
\* the slot; append the commands to the command queue.
EventConnection(d, key, slot) ==
    LET j == d.connections[slot]
        r == handle_input(slot, d.clients[j])
        d1 == [d EXCEPT !.clients[j].inbuf = <<>>,
                        !.command_queue = @ \o r.commands]
    IN  IF r.still_open
        THEN [d1 EXCEPT !.poller = poller_modify(@, ConnSrc(j), key)]
        ELSE [d1 EXCEPT !.poller = poller_close(@, ConnSrc(j)),
                        !.connections[slot] = 0]

\* handle_event_queue: the events in the order the poller gave them; the first
\* error ends it.
RECURSIVE handle_event_queue(_, _)
handle_event_queue(d, q) ==
    IF q = <<>> \/ d.failed THEN d
    ELSE
    LET key == Head(q)
        t == IF key \in 1 .. Len(d.event_key_storage)
             THEN d.event_key_storage[key] ELSE TargetNone
        d1 == CASE t.kind = "RpcListener" -> EventListener(d, key)
                [] t.kind = "Machine" /\ t.name \in DOMAIN d.machines ->
                       EventMachine(d, key, t.name)
                [] t.kind = "RpcConnection" /\ t.slot \in 1 .. Len(d.connections)
                       /\ d.connections[t.slot] # 0 -> EventConnection(d, key, t.slot)
                [] OTHER -> d
    IN  handle_event_queue(d1, Tail(q))

\* wait and handle_event_queue: the poller returns the keys of the readable
\* armed sources, in any order, and disarms them; the events are handled.
Wait ==
    /\ pc = "wait"
    /\ LET ready == {r \in poller : r.armed /\ Readable(r.src)}
           disarmed == (poller \ ready) \cup {[r EXCEPT !.armed = FALSE] : r \in ready}
       IN  /\ ready # {}
           /\ \E q \in Orders({r.key : r \in ready}) :
                LET d == handle_event_queue([Daemon EXCEPT !.poller = disarmed], q)
                IN  IF d.failed
                    THEN Gone("failed")
                    ELSE /\ SetDaemon(d)
                         /\ pc' = "commands"
                         /\ UNCHANGED <<sig_pending, exec_log, responses>>
    /\ UNCHANGED <<vmVars, auxVars>>
    /\ UNCHANGED socket_file

\* handle_command_queue, one command: pop from the end of the queue, handle
\* it, write the answer to the connection in the command's slot. A failed write
\* is returned to run.
HandleCommand ==
    /\ pc = "commands"
    /\ command_queue # <<>>
    /\ LET e == command_queue[Len(command_queue)]
           j == connections[e.slot]
       IN  \E c \in ChoicesFor(Daemon, e.cmd) :
             LET r == handle_command(Daemon, e.cmd, c)
             IN  IF j # 0 /\ ~clients[j].open
                 THEN Gone("failed")
                 ELSE /\ SetDaemon([r.d EXCEPT !.command_queue =
                              SubSeq(command_queue, 1, Len(command_queue) - 1)])
                      /\ exec_log' = Append(exec_log,
                              [origin |-> e.cmd.origin, id |-> e.cmd.id])
                      /\ responses' =
                            IF j = 0 THEN responses
                            ELSE Append(responses,
                                    [to |-> j, id |-> e.cmd.id, origin |-> e.cmd.origin])
                      /\ UNCHANGED <<pc, sig_pending>>
    /\ UNCHANGED <<vmVars, auxVars>>
    /\ UNCHANGED socket_file

\* The command queue is empty: the next iteration of the loop.
LoopAgain ==
    /\ pc = "commands"
    /\ command_queue = <<>>
    /\ pc' = "wait"
    /\ UNCHANGED <<vmVars, auxVars>>
    /\ UNCHANGED <<socket_file, machines, connections, event_key_storage, poller,
                   command_queue, clients, backlog, sig_pending, exec_log,
                   responses>>

\* A signal that is not bound ends the process on the spot.
DefaultSignal ==
    /\ Running
    /\ \E s \in Signal \ RegisteredSignals : Gone("killed")
    /\ UNCHANGED <<vmVars, auxVars>>
    /\ UNCHANGED socket_file

\* A bound signal outside wait stays pending.
DeferredSignal ==
    /\ pc \in {"init", "commands"}
    /\ Cardinality(sig_pending) < MaxDeferred
    /\ \E s \in RegisteredSignals : sig_pending' = sig_pending \cup {s}
    /\ UNCHANGED <<vmVars, auxVars>>
    /\ UNCHANGED <<pc, socket_file, machines, connections, event_key_storage, poller,
                   command_queue, clients, backlog, exec_log, responses>>

\* A bound signal interrupts wait. handle_exit_code reads what is pending:
\* SIGINT or SIGTERM ends the loop and run removes the socket file; otherwise
\* the loop goes on with an empty event queue.
InterruptedWait ==
    /\ pc = "wait"
    /\ \E s \in RegisteredSignals :
        IF (sig_pending \cup {s}) \cap {"SIGINT", "SIGTERM"} # {}
        THEN /\ Gone("ended")
             /\ socket_file' = FALSE
        ELSE /\ pc' = "commands"
             /\ sig_pending' = {}
             /\ UNCHANGED <<socket_file, machines, connections, event_key_storage,
                            poller, command_queue, clients, backlog, exec_log,
                            responses>>
    /\ UNCHANGED <<vmVars, auxVars>>

\* The peers.
Held(j) ==
    \/ \E i \in 1 .. Len(backlog) : backlog[i] = j
    \/ \E i \in 1 .. Len(connections) : connections[i] = j

ClientConnect ==
    /\ pc = "wait"
    /\ Len(clients) < MaxConns
    /\ clients' = Append(clients, [open |-> TRUE, inbuf |-> <<>>, nsent |-> 0])
    /\ backlog' = Append(backlog, Len(clients) + 1)
    /\ UNCHANGED <<vmVars, auxVars>>
    /\ UNCHANGED <<pc, socket_file, machines, connections, event_key_storage, poller,
                   command_queue, sig_pending, exec_log, responses>>

RECURSIVE SumSent(_, _)
SumSent(cs, i) == IF i > Len(cs) THEN 0 ELSE cs[i].nsent + SumSent(cs, i + 1)

\* A client writes a request; its id is the client's counter (write_command).
ClientWrite ==
    /\ pc = "wait"
    /\ SumSent(clients, 1) < MaxReqs
    /\ \E j \in 1 .. Len(clients), q \in Request(LoopNames) :
        /\ clients[j].open
        /\ Held(j)
        /\ clients' = [clients EXCEPT
              ![j].inbuf = Append(@, [id |-> clients[j].nsent, query |-> q.query,
                                      name |-> q.name, origin |-> j]),
              ![j].nsent = @ + 1]
    /\ UNCHANGED <<vmVars, auxVars>>
    /\ UNCHANGED <<pc, socket_file, machines, connections, event_key_storage, poller,
                   command_queue, backlog, sig_pending, exec_log, responses>>

\* A client closes its end: while the daemon waits, or while an answer to it
\* is still to be written.
ClientClose ==
    /\ \E j \in 1 .. Len(clients) :
        /\ clients[j].open
        /\ \/ pc = "wait"
           \/ /\ pc = "commands"
              /\ \E i \in 1 .. Len(command_queue) :
                    connections[command_queue[i].slot] = j
        /\ clients' = [clients EXCEPT ![j].open = FALSE]
    /\ UNCHANGED <<vmVars, auxVars>>
    /\ UNCHANGED <<pc, socket_file, machines, connections, event_key_storage, poller,
                   command_queue, backlog, sig_pending, exec_log, responses>>

\* The children of the registered machines.
GuestEvent ==
    /\ pc = "wait"
    /\ \E n \in DOMAIN machines, e \in Event :
        /\ SocketLive(machines[n])
        /\ Len(machines[n].pending) < MaxPending
        /\ machines' = [machines EXCEPT ![n] = guest_event(@, e)]
    /\ UNCHANGED <<vmVars, auxVars>>
    /\ UNCHANGED <<pc, socket_file, connections, event_key_storage, poller,
                   command_queue, clients, backlog, sig_pending, exec_log, responses>>

ChildExit ==
    /\ pc = "wait"
    /\ \E n \in DOMAIN machines :
        /\ machines[n].process # 0 /\ machines[n].alive
        /\ machines' = [machines EXCEPT ![n] = child_exit(@)]
    /\ UNCHANGED <<vmVars, auxVars>>
    /\ UNCHANGED <<pc, socket_file, connections, event_key_storage, poller,
                   command_queue, clients, backlog, sig_pending, exec_log, responses>>

Next ==
    \/ LoadDefinitions
    \/ Wait
    \/ HandleCommand
    \/ LoopAgain
    \/ DefaultSignal
    \/ DeferredSignal
    \/ InterruptedWait
    \/ ClientConnect
    \/ ClientWrite
    \/ ClientClose
    \/ GuestEvent
    \/ ChildExit

Spec == Init /\ [][Next]_vars

SpecVM == Init /\ [][NextVM]_vars

\* The machine's control socket is polled whenever it is readable, and it is
\* readable once the child is gone: boop is not postponed forever.
SpecVMLive == SpecVM /\ WF_vars(VBoop)

-----------------------------------------------------------------------------
\* SpecDispatch: handle_command alone, on two machine names: any request at
\* any time, and the children of the machines.

Dispatch ==
    /\ pc = "wait"
    /\ Len(event_key_storage) < MaxTargets
    /\ \E q \in Request(Names) :
         LET cmd == [id |-> 0, query |-> q.query, name |-> q.name, origin |-> 0]
         IN  \E c \in ChoicesFor(Daemon, cmd) :
                LET r == handle_command(Daemon, cmd, c)
                IN  /\ SetDaemon(r.d)
                    /\ reply' = [query |-> q.query, name |-> q.name,
                                 known |-> q.name \in DOMAIN machines,
                                 ok |-> r.ok, answer |-> r.answer,
                                 error |-> r.error,
                                 changed |-> Changed(Daemon, r.d),
                                 qmp |-> IF q.query = "kill"
                                             /\ q.name \in DOMAIN machines
                                         THEN quit_result(machines[q.name], c.qmp)
                                         ELSE "none"]
    /\ pc' = "commands"
    /\ UNCHANGED <<vmVars, codecVars, vfioVars, moreVars>>
    /\ UNCHANGED <<socket_file, sig_pending, exec_log, responses>>

\* The answer is written; the daemon waits again.
DispatchDone ==
    /\ pc = "commands"
    /\ pc' = "wait"
    /\ reply' = NoReply
    /\ UNCHANGED <<vmVars, codecVars, vfioVars, moreVars>>
    /\ UNCHANGED <<socket_file, machines, connections, event_key_storage, poller,
                   command_queue, clients, backlog, sig_pending, exec_log,
                   responses>>

\* The startup loads with both names.
LoadDefinitionsAll ==
    /\ pc = "init"
    /\ \E files \in DefFiles(Names) : SetDaemon(load_definitions(Daemon, files))
    /\ pc' = "wait"
    /\ UNCHANGED <<vmVars, auxVars>>
    /\ UNCHANGED <<socket_file, sig_pending, exec_log, responses>>

InitDispatch ==
    /\ InitVM
    /\ InitAux
    /\ pc = "init"
    /\ socket_file = TRUE
    /\ machines = <<>>
    /\ connections = <<>>
    /\ event_key_storage = <<RpcListener>>
    /\ poller = {[src |-> ListenerSrc, key |-> 1, armed |-> TRUE]}
    /\ command_queue = <<>>
    /\ clients = <<>>
    /\ backlog = <<>>
    /\ sig_pending = {}
    /\ exec_log = <<>>
    /\ responses = <<>>

NextDispatch ==
    \/ LoadDefinitionsAll
    \/ Dispatch
    \/ DispatchDone
    \/ GuestEvent
    \/ ChildExit

SpecDispatch == InitDispatch /\ [][NextDispatch]_vars

-----------------------------------------------------------------------------
\* SpecCodec: one RPC connection, byte by byte (RpcConnection::handle_input).

\* bytes the peer writes on the connection
MaxBytes == 5

\* The bytes of the model: "n" is the newline. The text of a request is two
\* bytes, "ab" or "ba"; any other line is not JSON for a request.
NEWLINE == "n"
Byte == {"a", "b", NEWLINE}

\* CommandCenter::read_command: the command, or an error.
read_command(part) ==
    IF part \in {<<"a", "b">>, <<"b", "a">>}
    THEN [ok |-> TRUE, cmd |-> part]
    ELSE [ok |-> FALSE, cmd |-> <<>>]

\* Index of the last newline of b, 0 when it has none.
RECURSIVE LastNewline(_, _)
LastNewline(b, i) ==
    IF i = 0 THEN 0
    ELSE IF b[i] = NEWLINE THEN i
    ELSE LastNewline(b, i - 1)

\* slice::split on the newline: the parts between newlines, the part after
\* the last newline included.
RECURSIVE split(_, _)
split(b, cur) ==
    IF b = <<>> THEN <<cur>>
    ELSE IF Head(b) = NEWLINE THEN <<cur>> \o split(Tail(b), <<>>)
    ELSE split(Tail(b), Append(cur, Head(b)))

\* A variant of the loop that gives up at the first part that does not parse.
RECURSIVE parse_parts_Strict(_, _)
parse_parts_Strict(parts, own_id) ==
    IF parts = <<>> THEN <<>>
    ELSE LET r == read_command(Head(parts))
         IN  IF Head(parts) = <<>> THEN parse_parts_Strict(Tail(parts), own_id)
             ELSE IF r.ok
             THEN <<[slot |-> own_id, cmd |-> r.cmd]>>
                      \o parse_parts_Strict(Tail(parts), own_id)
             ELSE <<>>

\* The loop over the parts: empty parts are skipped, a part that does not
\* parse is logged and skipped.
RECURSIVE parse_parts(_, _)
parse_parts(parts, own_id) ==
    IF parts = <<>> THEN <<>>
    ELSE LET r == read_command(Head(parts))
             rest == parse_parts(Tail(parts), own_id)
         IN  IF Head(parts) # <<>> /\ r.ok
             THEN <<[slot |-> own_id, cmd |-> r.cmd]>> \o rest
             ELSE rest

\* handle_input on bytes: buf is self.buffer, data what the reads of this call
\* returned, eof that a read returned 0. While the stream is open the buffer
\* is cut after its last newline, or at its end when it has no newline, and
\* what comes after the cut is kept; what comes before is split and parsed.
handle_input_bytes(own_id, buf, data, eof) ==
    LET all == buf \o data
        nl == LastNewline(all, Len(all))
        at == IF nl # 0 THEN nl ELSE Len(all)
        taken == IF eof THEN all ELSE SubSeq(all, 1, at)
        kept == IF eof THEN <<>> ELSE SubSeq(all, at + 1, Len(all))
    IN  [still_open |-> ~eof,
         commands |-> parse_parts(split(taken, <<>>), own_id),
         buffer |-> kept]

\* The peer writes a byte.
CodecWrite ==
    /\ stream_open
    /\ Len(written) < MaxBytes
    /\ \E b \in Byte :
        /\ stream' = Append(stream, b)
        /\ written' = Append(written, b)
    /\ UNCHANGED <<stream_open, buffer, slot_open, dispatched, input>>
    /\ UNCHANGED <<vmVars, daemonVars, reply, vfioVars, moreVars>>

\* The peer closes its end.
CodecClose ==
    /\ stream_open
    /\ stream_open' = FALSE
    /\ UNCHANGED <<stream, buffer, slot_open, written, dispatched, input>>
    /\ UNCHANGED <<vmVars, daemonVars, reply, vfioVars, moreVars>>

\* The RpcConnection arm of handle_event_queue for this connection: it is
\* readable (bytes, or the end of the stream); handle_input reads all there
\* is; the slot is emptied unless the stream is still open; the commands go to
\* the command queue.
CodecInput ==
    /\ slot_open
    /\ stream # <<>> \/ ~stream_open
    /\ LET r == handle_input_bytes(1, buffer, stream, ~stream_open)
       IN  /\ buffer' = r.buffer
           /\ slot_open' = r.still_open
           /\ dispatched' = dispatched \o r.commands
           /\ input' = [data |-> buffer \o stream, eof |-> ~stream_open,
                        commands |-> r.commands, still_open |-> r.still_open]
    /\ stream' = <<>>
    /\ UNCHANGED <<stream_open, written>>
    /\ UNCHANGED <<vmVars, daemonVars, reply, vfioVars, moreVars>>

NextCodec ==
    \/ CodecWrite
    \/ CodecClose
    \/ CodecInput

SpecCodec == Init /\ [][NextCodec]_vars

-----------------------------------------------------------------------------
\* SpecVfio: VirtualMachine::prepare_vfio on the devices of a host.

AUTO_UNBIND_BLACKLIST == {"nvidia", "amdgpu"}

\* What the host does to one device while it is prepared: the step that
\* fails ("none", or the first read of the driver link, the write to unbind,
\* to driver_override, to drivers_probe), and the driver the device is bound
\* to after the probe.
DevEnv ==
    [fail : {"read", "unbind", "override", "probe"}, bound : {""}]
        \cup [fail : {"none"}, bound : Driver]

\* The write to the unbind file of the driver a device is bound to; a device
\* without a driver has none.
Unbound(driver) == IF driver = "" THEN {} ELSE {"unbind"}

\* A variant of the closure that trusts the probe.
vfio_device_Trusting(driver, execute_fixes, force, e) ==
    LET is_blacklisted == driver \in AUTO_UNBIND_BLACKLIST /\ ~force
    IN  IF e.fail = "read" THEN [ok |-> FALSE, driver |-> driver, writes |-> {}]
        ELSE IF driver # "vfio-pci" /\ (~execute_fixes \/ is_blacklisted)
        THEN [ok |-> FALSE, driver |-> driver, writes |-> {}]
        ELSE IF driver = "vfio-pci" THEN [ok |-> TRUE, driver |-> driver, writes |-> {}]
        ELSE IF driver # "" /\ e.fail = "unbind"
        THEN [ok |-> FALSE, driver |-> driver, writes |-> {}]
        ELSE IF e.fail = "override"
        THEN [ok |-> FALSE, driver |-> "", writes |-> Unbound(driver)]
        ELSE IF e.fail = "probe"
        THEN [ok |-> FALSE, driver |-> "",
              writes |-> Unbound(driver) \cup {"driver_override"}]
        ELSE [ok |-> TRUE, driver |-> e.bound,
              writes |-> Unbound(driver) \cup {"driver_override", "drivers_probe"}]

\* A variant of the closure that unbinds the device before it looks at
\* execute_fixes and the blacklist.
vfio_device_UnbindFirst(driver, execute_fixes, force, e) ==
    LET is_blacklisted == driver \in AUTO_UNBIND_BLACKLIST /\ ~force
    IN  IF e.fail = "read" THEN [ok |-> FALSE, driver |-> driver, writes |-> {}]
        ELSE IF driver = "vfio-pci" THEN [ok |-> TRUE, driver |-> driver, writes |-> {}]
        ELSE IF driver # "" /\ e.fail = "unbind"
        THEN [ok |-> FALSE, driver |-> driver, writes |-> {}]
        ELSE IF ~execute_fixes \/ is_blacklisted
        THEN [ok |-> FALSE, driver |-> "", writes |-> Unbound(driver)]
        ELSE IF e.fail = "override"
        THEN [ok |-> FALSE, driver |-> "", writes |-> Unbound(driver)]
        ELSE IF e.fail = "probe"
        THEN [ok |-> FALSE, driver |-> "",
              writes |-> Unbound(driver) \cup {"driver_override"}]
        ELSE [ok |-> e.bound = "vfio-pci", driver |-> e.bound,
              writes |-> Unbound(driver) \cup {"driver_override", "drivers_probe"}]

\* The closure of prepare_vfio for one device whose driver link names driver:
\* the result, the driver the link names when it returns, and the sysfs files
\* it has written to.
vfio_device(driver, execute_fixes, force, e) ==
    LET is_blacklisted == driver \in AUTO_UNBIND_BLACKLIST /\ ~force
    IN  IF e.fail = "read" THEN [ok |-> FALSE, driver |-> driver, writes |-> {}]
        ELSE IF driver # "vfio-pci" /\ (~execute_fixes \/ is_blacklisted)
        THEN [ok |-> FALSE, driver |-> driver, writes |-> {}]
        ELSE IF driver = "vfio-pci" THEN [ok |-> TRUE, driver |-> driver, writes |-> {}]
        \* driver # "vfio-pci" /\ execute_fixes /\ ~is_blacklisted
        ELSE IF driver # "" /\ e.fail = "unbind"
        THEN [ok |-> FALSE, driver |-> driver, writes |-> {}]
        ELSE IF e.fail = "override"
        THEN [ok |-> FALSE, driver |-> "", writes |-> Unbound(driver)]
        ELSE IF e.fail = "probe"
        THEN [ok |-> FALSE, driver |-> "",
              writes |-> Unbound(driver) \cup {"driver_override"}]
        ELSE [ok |-> e.bound = "vfio-pci", driver |-> e.bound,
              writes |-> Unbound(driver) \cup {"driver_override", "drivers_probe"}]

\* prepare_vfio: nothing to do without devices; modprobe must succeed; then
\* every device of the config is prepared, each with its own result.
prepare_vfio(h, devs, execute_fixes, force, modprobe, env) ==
    IF devs = {} THEN [host |-> h, results |-> <<>>, writes |-> <<>>]
    ELSE IF ~modprobe
    THEN [host |-> h, results |-> [d \in {0} |-> FALSE], writes |-> <<>>]
    ELSE LET r == [d \in devs |-> vfio_device(h[d], execute_fixes, force, env[d])]
         IN  [host |-> [d \in Dev |-> IF d \in devs THEN r[d].driver ELSE h[d]],
              results |-> [d \in devs |-> r[d].ok],
              writes |-> [d \in devs |-> r[d].writes]]

VfioPrepare ==
    /\ \E devs \in SUBSET Dev, execute_fixes \in BOOLEAN, force \in BOOLEAN,
          modprobe \in BOOLEAN, env \in [Dev -> DevEnv] :
         LET r == prepare_vfio(host, devs, execute_fixes, force, modprobe, env)
         IN  /\ host' = r.host
             /\ vfio' = [devs |-> devs, execute_fixes |-> execute_fixes,
                         force |-> force, before |-> host, results |-> r.results,
                         writes |-> r.writes]
    /\ UNCHANGED <<vmVars, daemonVars, reply, codecVars, moreVars>>

\* Any host to begin with.
InitHost ==
    /\ InitVM
    /\ pc = "init"
    /\ socket_file = TRUE
    /\ machines = <<>>
    /\ connections = <<>>
    /\ event_key_storage = <<RpcListener>>
    /\ poller = {[src |-> ListenerSrc, key |-> 1, armed |-> TRUE]}
    /\ command_queue = <<>>
    /\ clients = <<>>
    /\ backlog = <<>>
    /\ sig_pending = {}
    /\ exec_log = <<>>
    /\ responses = <<>>
    /\ reply = NoReply
    /\ InitCodec
    /\ host \in [Dev -> Driver]
    /\ vfio = NoVfio
    /\ InitMore

NextVfio == VfioPrepare

SpecVfio == InitHost /\ [][NextVfio]_vars

-----------------------------------------------------------------------------
\* SpecHost: one machine with a VFIO device, looking-glass and spice, on a
\* host whose drivers and directories prepare and start work on.

\* The VFIO devices of the machine's config.
MachineDevs == {1}

\* The directories of the model. A path of the config is named by the
\* directory it lies in: "shm" holds the default looking-glass file
\* (/dev/shm/vore/<name>), "work" is the working directory, "custom" another.
Dir == {"shm", "work", "custom"}

\* What the host does while prepare runs: the disks can be opened, modprobe
\* succeeds, what happens to each device (the link cannot be read, the probe
\* fails, the probe binds vfio-pci or leaves another driver), create_dir_all
\* succeeds.
HostDevEnv ==
    {e \in DevEnv : e.fail \in {"read", "probe"}
                     \/ (e.fail = "none" /\ e.bound \in {"vfio-pci", "e1000"})}

HostEnv ==
    [disks : BOOLEAN, modprobe : BOOLEAN, dev : [MachineDevs -> HostDevEnv],
     mkdir : BOOLEAN]

\* A host on which every step succeeds.
KindEnv ==
    [disks |-> TRUE, modprobe |-> TRUE,
     dev |-> [d \in MachineDevs |-> [fail |-> "none", bound |-> "vfio-pci"]],
     mkdir |-> TRUE]

\* create_dir_all on the parent of a path, unless it is a directory already.
make_parent(ds, dir, mkdir) ==
    IF dir \in ds THEN [dirs |-> ds, ok |-> TRUE]
    ELSE IF mkdir THEN [dirs |-> ds \cup {dir}, ok |-> TRUE]
    ELSE [dirs |-> ds, ok |-> FALSE]

\* prepare_shm with looking-glass enabled: an empty mem_path becomes the
\* default, and the directory of the path is created when it is missing.
prepare_shm(ps, ds, mkdir) ==
    LET mem == IF ps.mem_path = "" THEN "shm" ELSE ps.mem_path
        r == make_parent(ds, mem, mkdir)
    IN  [paths |-> [ps EXCEPT !.mem_path = mem], dirs |-> r.dirs, ok |-> r.ok]

\* prepare_sockets with spice enabled: an empty socket_path becomes
\* <working_dir>/spice.sock.
prepare_sockets(ps, ds, mkdir) ==
    LET sock == IF ps.socket_path = "" THEN "work" ELSE ps.socket_path
        r == make_parent(ds, sock, mkdir)
    IN  [paths |-> [ps EXCEPT !.socket_path = sock], dirs |-> r.dirs, ok |-> r.ok]

\* prepare_disks: every disk can be opened for reading.
prepare_disks(e) == e.disks

\* prepare on a host: the four sub-steps in the order of the code, each run
\* whatever the others returned, then the state change of prepare.
prepare_on(m, h, ds, ps, execute_fixes, force, e) ==
    LET v == prepare_vfio(h, MachineDevs, execute_fixes, force, e.modprobe, e.dev)
        shm == prepare_shm(ps, ds, e.mkdir)
        sock == prepare_sockets(shm.paths, shm.dirs, e.mkdir)
        steps == [disks |-> prepare_disks(e),
                  vfio |-> \A d \in DOMAIN v.results : v.results[d],
                  shm |-> shm.ok, sockets |-> sock.ok]
    IN  [ret |-> prepare(m, bcollect(steps)), steps |-> steps, host |-> v.host,
         dirs |-> sock.dirs, paths |-> sock.paths, writes |-> v.writes]

\* The child of the machine holds its devices while it runs.
Holds(m) == m.process # 0 /\ m.alive

\* The disks can be read, the module loads and the driver links can be read.
Cooperates(e) ==
    /\ e.disks /\ e.modprobe
    /\ \A d \in MachineDevs : e.dev[d].fail # "read"

\* last keeps the host prepare found, what it wrote to sysfs and whether the
\* host let it read what it reads.
HPrepare ==
    \E execute_fixes \in BOOLEAN, force \in BOOLEAN, e \in HostEnv :
        LET r == prepare_on(vm, host, dirs, paths, execute_fixes, force, e)
        IN  /\ vm' = r.ret.vm
            /\ last' = [op |-> "prepare", ok |-> r.ret.ok, sent |-> {},
                        spawned |-> FALSE, pre |-> vm, steps |-> r.steps,
                        host |-> host, dirs |-> dirs, paths |-> paths,
                        writes |-> r.writes, cooperates |-> Cooperates(e)]
            /\ host' = r.host
            /\ dirs' = r.dirs
            /\ paths' = r.paths
            /\ UNCHANGED <<daemonVars, reply, codecVars, vfio, fnVars, boot>>

\* start on a host: prepare(true, false) runs when start gets as far as it
\* (no live child, state Loaded); QEMU opens the devices through vfio-pci
\* before it serves the control socket, and exits when one is bound otherwise.
HStart ==
    \E e \in IF ~Holds(vm) /\ vm.state = "Loaded" THEN HostEnv ELSE {KindEnv} :
        LET r == IF ~Holds(vm) /\ vm.state = "Loaded"
                 THEN prepare_on(vm, host, dirs, paths, TRUE, FALSE, e)
                 ELSE [ret |-> Ret(vm, TRUE, {}), host |-> host, dirs |-> dirs,
                       paths |-> paths]
            \* start returns at once when prepare fails
            cs == IF r.ret.ok THEN {x \in StartChoices(vm) : x.stepsOk}
                  ELSE {[stepsOk |-> FALSE, spawnOk |-> FALSE, fail |-> "none",
                         extra |-> <<>>]}
        IN  \E c \in cs :
                /\ c.fail = "none" => \A d \in MachineDevs : r.host[d] = "vfio-pci"
                /\ vm' = start(vm, c).vm
                /\ last' = [op |-> "start", ok |-> start(vm, c).ok,
                            sent |-> start(vm, c).sent,
                            spawned |-> start(vm, c).spawned, pre |-> vm]
                /\ host' = r.host
                /\ dirs' = r.dirs
                /\ paths' = r.paths
                /\ UNCHANGED <<daemonVars, reply, codecVars, vfio, fnVars, boot>>

\* Something else on the host binds a device the machine's child does not
\* hold to another driver.
HostRebind ==
    \E d \in MachineDevs, driver \in Driver :
        /\ ~Holds(vm)
        /\ driver # host[d]
        /\ host' = [host EXCEPT ![d] = driver]
        /\ last' = [op |-> "rebind", ok |-> TRUE, sent |-> {}, spawned |-> FALSE,
                    pre |-> vm]
        /\ UNCHANGED <<vm, daemonVars, reply, codecVars, vfio, moreVars>>

InitHostVm ==
    /\ InitVM
    /\ pc = "init"
    /\ socket_file = TRUE
    /\ machines = <<>>
    /\ connections = <<>>
    /\ event_key_storage = <<RpcListener>>
    /\ poller = {[src |-> ListenerSrc, key |-> 1, armed |-> TRUE]}
    /\ command_queue = <<>>
    /\ clients = <<>>
    /\ backlog = <<>>
    /\ sig_pending = {}
    /\ exec_log = <<>>
    /\ responses = <<>>
    /\ reply = NoReply
    /\ InitCodec
    /\ host \in {h \in [Dev -> Driver] : \A d \in Dev \ MachineDevs : h[d] = ""}
    /\ vfio = NoVfio
    /\ dirs \in {{}, Dir}
    /\ paths \in [mem_path : {"", "custom"}, socket_path : {""}]
    /\ arg = NoCall
    /\ out = NoCall
    /\ poll = NoPoll
    /\ boot = NoBoot

NextHost ==
    \/ HPrepare
    \/ HStart
    \/ HostRebind
    \/ VStop
    \/ VPause
    \/ VQuit
    \/ VBoop
    \/ VGuestEvent
    \/ VChildExit

SpecHost == InitHostVm /\ [][NextHost]_vars

-----------------------------------------------------------------------------
\* SpecStartup: Daemon::run from the bound socket to the first requests.

\* requests of the loop that follows the startup
MaxBootReqs == 1

\* A definition file: the name of its config, whether it can be read and
\* parsed, and the flags of the machine it defines (auto-start, and its VFIO
\* device flagged for reservation).
BootFile ==
    [name : Names, ok : {TRUE}, auto_start : BOOLEAN, reserve : BOOLEAN]
        \cup [name : Names, ok : {FALSE}, auto_start : {FALSE}, reserve : {FALSE}]

BootFiles == UNION {[1 .. k -> BootFile] : k \in 0 .. MaxDefs}

\* The VFIO device of a machine's config.
DevOf(n) == IF n = "a" THEN 1 ELSE 2

\* What auto-start lets the environment decide.
BootStartChoice ==
    {c \in StartChoice : c.extra = <<>> /\ c.fail \in {"none", "early"}}

IsOk(f) == f.ok

FileNames(fs) == [i \in 1 .. Len(fs) |-> fs[i].name]

\* The entries run logs for the definition files, in the order of the
\* directory: load_definitions loads with save = false.
LoadLog(fs) ==
    [i \in 1 .. Len(fs) |->
        [step |-> "load", name |-> fs[i].name, ok |-> fs[i].ok, save |-> FALSE,
         execute_fixes |-> FALSE, force |-> FALSE]]

\* The machines flagged by the files that loaded: a later file of the same
\* name replaces the machine.
RECURSIVE Flagged(_, _)
Flagged(fs, flag) ==
    IF fs = <<>> THEN {}
    ELSE LET f == fs[Len(fs)]
             before == Flagged(SubSeq(fs, 1, Len(fs) - 1), flag)
         IN  IF ~f.ok THEN before
             ELSE IF f[flag] THEN before \cup {f.name}
             ELSE before \ {f.name}

\* VirtualMachine::prepare_vfio_device: VFIO preparation of one device.
prepare_vfio_device(h, d, execute_fixes, force, e) ==
    LET r == vfio_device(h[d], execute_fixes, force, e)
    IN  [host |-> [h EXCEPT ![d] = r.driver], ok |-> r.ok,
         entry |-> [step |-> "reserve", ok |-> r.ok, save |-> FALSE,
                    execute_fixes |-> execute_fixes, force |-> force]]

\* A variant of reserve_vfio_devices that gives up at the first failure.
RECURSIVE reserve_vfio_devices_GivesUp(_, _, _, _, _)
reserve_vfio_devices_GivesUp(h, log, order, reserved, env) ==
    IF order = <<>> THEN [host |-> h, log |-> log]
    ELSE LET n == Head(order)
         IN  IF n \notin reserved
             THEN reserve_vfio_devices_GivesUp(h, log, Tail(order), reserved, env)
             ELSE LET r == prepare_vfio_device(h, DevOf(n), TRUE, TRUE, env[n])
                      l == Append(log, [name |-> n] @@ r.entry)
                  IN  IF ~r.ok THEN [host |-> r.host, log |-> l]
                      ELSE reserve_vfio_devices_GivesUp(r.host, l, Tail(order),
                                                        reserved, env)

\* reserve_vfio_devices: every device flagged for reservation, machine by
\* machine in the order of the map, is prepared with execute_fixes and force;
\* the result is logged.
RECURSIVE reserve_vfio_devices(_, _, _, _, _)
reserve_vfio_devices(h, log, order, reserved, env) ==
    IF order = <<>> THEN [host |-> h, log |-> log]
    ELSE LET n == Head(order)
         IN  IF n \notin reserved
             THEN reserve_vfio_devices(h, log, Tail(order), reserved, env)
             ELSE LET r == prepare_vfio_device(h, DevOf(n), TRUE, TRUE, env[n])
                  IN  reserve_vfio_devices(r.host, Append(log, [name |-> n] @@ r.entry),
                                           Tail(order), reserved, env)

\* auto_start_machines: every machine that should auto-start is started, in
\* the order of the map; the result is logged.
RECURSIVE auto_start_machines(_, _, _, _, _)
auto_start_machines(d, log, order, autos, cs) ==
    IF order = <<>> THEN [d |-> d, log |-> log]
    ELSE LET n == Head(order)
         IN  IF n \notin autos
             THEN auto_start_machines(d, log, Tail(order), autos, cs)
             ELSE LET r == start(d.machines[n], cs[n])
                  IN  auto_start_machines(
                          SetMachine(d, n, r.vm),
                          Append(log, [step |-> "start", name |-> n, ok |-> r.ok,
                                       save |-> FALSE, execute_fixes |-> FALSE,
                                       force |-> FALSE]),
                          Tail(order), autos, cs)

\* run: load_definitions. When the directory cannot be listed run returns the
\* error; else every file is tried, and the map iterates in some order.
BootLoad ==
    /\ pc = "init"
    /\ \E listed \in BOOLEAN, fs \in BootFiles :
         IF ~listed
         THEN /\ pc' = "error"
              /\ UNCHANGED <<machines, event_key_storage, poller, connections,
                             command_queue, clients, backlog, boot>>
         ELSE LET d == load_definitions(Daemon, FileNames(SelectSeq(fs, IsOk)))
              IN  /\ SetDaemon(d)
                  /\ pc' = "reserve"
                  /\ \E order \in Orders(DOMAIN d.machines) :
                        boot' = [log |-> LoadLog(fs), files |-> fs,
                                 reserve |-> Flagged(fs, "reserve"),
                                 auto_start |-> Flagged(fs, "auto_start"),
                                 order |-> order]
    /\ UNCHANGED <<vmVars, reply, codecVars, vfioVars, fsVars, fnVars>>
    /\ UNCHANGED <<socket_file, sig_pending, exec_log, responses>>

\* run: reserve_vfio_devices.
BootReserve ==
    /\ pc = "reserve"
    /\ \E env \in [Names -> HostDevEnv] :
         LET r == reserve_vfio_devices(host, boot.log, boot.order, boot.reserve, env)
         IN  /\ host' = r.host
             /\ boot' = [boot EXCEPT !.log = r.log]
    /\ pc' = "autostart"
    /\ UNCHANGED <<vmVars, daemonVars_but_pc, reply, codecVars, vfio, fsVars, fnVars>>

\* run: auto_start_machines; the loop follows.
BootAutoStart ==
    /\ pc = "autostart"
    /\ \E cs \in [Names -> BootStartChoice] :
         LET r == auto_start_machines(Daemon, boot.log, boot.order,
                                      boot.auto_start, cs)
         IN  /\ SetDaemon(r.d)
             /\ boot' = [boot EXCEPT !.log = r.log]
    /\ pc' = "wait"
    /\ UNCHANGED <<vmVars, reply, codecVars, vfioVars, fsVars, fnVars>>
    /\ UNCHANGED <<socket_file, sig_pending, exec_log, responses>>

\* The loop handles a request of a client.
BootRequest ==
    /\ pc = "wait"
    /\ Len(SelectSeq(boot.log, LAMBDA x : x.step = "request")) < MaxBootReqs
    /\ Len(event_key_storage) < MaxTargets
    /\ \E q \in Request(Names) :
         LET cmd == [id |-> 0, query |-> q.query, name |-> q.name, origin |-> 0]
         IN  \E c \in ChoicesFor(Daemon, cmd) :
                LET r == handle_command(Daemon, cmd, c)
                IN  /\ SetDaemon(r.d)
                    /\ boot' = [boot EXCEPT !.log =
                                   Append(@, [step |-> "request", name |-> q.name,
                                              ok |-> r.ok, save |-> FALSE,
                                              execute_fixes |-> FALSE,
                                              force |-> FALSE])]
    /\ UNCHANGED <<vmVars, reply, codecVars, vfioVars, fsVars, fnVars>>
    /\ UNCHANGED <<pc, socket_file, sig_pending, exec_log, responses>>

\* The devices are bound to a driver of the blacklist when run begins.
InitStartup ==
    /\ InitVM
    /\ pc = "init"
    /\ socket_file = TRUE
    /\ machines = <<>>
    /\ connections = <<>>
    /\ event_key_storage = <<RpcListener>>
    /\ poller = {[src |-> ListenerSrc, key |-> 1, armed |-> TRUE]}
    /\ command_queue = <<>>
    /\ clients = <<>>
    /\ backlog = <<>>
    /\ sig_pending = {}
    /\ exec_log = <<>>
    /\ responses = <<>>
    /\ reply = NoReply
    /\ InitCodec
    /\ host = [d \in Dev |-> "nvidia"]
    /\ vfio = NoVfio
    /\ InitMore

NextStartup ==
    \/ BootLoad
    \/ BootReserve
    \/ BootAutoStart
    \/ BootRequest

SpecStartup == InitStartup /\ [][NextStartup]_vars

-----------------------------------------------------------------------------
\* The parsers of instance_config.rs. Each has a specification of its own:
\* the input is any value of a bounded set, and one action applies the parser.

\* Everything but the input is as the daemon starts.
InitFn ==
    /\ InitVM
    /\ pc = "init"
    /\ socket_file = TRUE
    /\ machines = <<>>
    /\ connections = <<>>
    /\ event_key_storage = <<RpcListener>>
    /\ poller = {[src |-> ListenerSrc, key |-> 1, armed |-> TRUE]}
    /\ command_queue = <<>>
    /\ clients = <<>>
    /\ backlog = <<>>
    /\ sig_pending = {}
    /\ exec_log = <<>>
    /\ responses = <<>>
    /\ reply = NoReply
    /\ InitCodec
    /\ InitVfio
    /\ dirs = {}
    /\ paths = NoPaths
    /\ boot = NoBoot
    /\ out = NoCall

\* A parser was applied: the other variables stay.
Applied ==
    /\ out = NoCall
    /\ UNCHANGED <<vmVars, daemonVars, reply, codecVars, vfioVars, fsVars, boot, arg, poll>>

-----------------------------------------------------------------------------
\* SpecCpu: CpuConfig::apply_table on the default CpuConfig.

\* bits of the unsigned integers of the CPU fields (u64 in the code)
CpuBits == 3

CpuWord == 2 ^ CpuBits

\* A key the table does not hold.
Absent == -2

CpuKey == {"amount", "cores", "threads", "dies", "sockets"}

Topology == {"cores", "sockets", "dies", "threads"}

\* The integers of a table: the signed type of the same width, of which the
\* negative ones are refused; -1 stands for them.
CpuValue == -1 .. (2 ^ (CpuBits - 1) - 1)

CpuTable == [CpuKey -> CpuValue \cup {Absent}]

CpuDefault == [amount |-> 2, cores |-> 1, threads |-> 2, dies |-> 1, sockets |-> 1]

\* get_positive_number_from_table: None, the number, or an error.
get_positive_number_from_table(table, key) ==
    IF table[key] = Absent THEN [ok |-> TRUE, some |-> FALSE, v |-> 0]
    ELSE IF table[key] < 0 THEN [ok |-> FALSE, some |-> FALSE, v |-> 0]
    ELSE [ok |-> TRUE, some |-> TRUE, v |-> table[key]]

\* a * b in the unsigned type: the build either checks for overflow and
\* panics, or wraps.
Mul(a, b, checks) ==
    IF a.panic THEN a
    ELSE IF a.v * b >= CpuWord /\ checks THEN [panic |-> TRUE, v |-> 0]
    ELSE [panic |-> FALSE, v |-> (a.v * b) % CpuWord]

\* self.sockets * self.dies * self.cores * self.threads
calc_amount(c, checks) ==
    Mul(Mul(Mul([panic |-> FALSE, v |-> c.sockets], c.dies, checks),
            c.cores, checks), c.threads, checks)

\* The keys in the order apply_table reads them.
CpuOrder == <<"amount", "cores", "threads", "dies", "sockets">>

\* The fields after the first n keys were read, or the key that failed.
RECURSIVE ReadKeys(_, _, _)
ReadKeys(c, table, n) ==
    IF n = 0 THEN [ok |-> TRUE, cfg |-> c, key |-> ""]
    ELSE LET before == ReadKeys(c, table, n - 1)
             key == CpuOrder[n]
             r == get_positive_number_from_table(table, key)
         IN  IF ~before.ok THEN before
             ELSE IF ~r.ok THEN [ok |-> FALSE, cfg |-> before.cfg, key |-> key]
             ELSE IF r.some
             THEN [ok |-> TRUE, cfg |-> [before.cfg EXCEPT ![key] = r.v], key |-> ""]
             ELSE before

CpuResult(res, c, error) == [fn |-> "cpu", res |-> res, cfg |-> c, error |-> error]

\* apply_table: the fields the table gives are set; an amount that is not
\* given is computed, one given with a topology is compared with it, one
\* given alone is split in cores and threads.
apply_table(c, table, checks) ==
    LET read == ReadKeys(c, table, Len(CpuOrder))
        cfg == read.cfg
        calc == calc_amount(cfg, checks)
    IN  IF ~read.ok THEN CpuResult("error", cfg, <<"negative", read.key>>)
        ELSE IF table.amount = Absent
        THEN IF calc.panic THEN CpuResult("panic", cfg, <<>>)
             ELSE CpuResult("ok", [cfg EXCEPT !.amount = calc.v], <<>>)
        ELSE IF \E k \in Topology : table[k] # Absent
        THEN IF calc.panic THEN CpuResult("panic", cfg, <<>>)
             ELSE IF cfg.amount # calc.v
             THEN CpuResult("error", cfg, <<"differs", calc.v, cfg.amount>>)
             ELSE CpuResult("ok", cfg, <<>>)
        ELSE IF cfg.amount % 2 = 0
        THEN CpuResult("ok", [cfg EXCEPT !.cores = cfg.amount \div 2], <<>>)
        ELSE CpuResult("ok", [cfg EXCEPT !.threads = 1, !.cores = cfg.amount], <<>>)

CpuParse ==
    /\ Applied
    /\ \E checks \in BOOLEAN : out' = apply_table(CpuDefault, arg, checks)

InitCpu == InitFn /\ arg \in CpuTable /\ poll = NoPoll

NextCpu == CpuParse

SpecCpu == InitCpu /\ [][NextCpu]_vars

-----------------------------------------------------------------------------
\* SpecSize: parse_size on short strings.

\* characters of a size expression
MaxSize == 3

Digit == {"1", "2"}

SizeChar == Digit \cup {"k", "m", "g", "t", "b", "G", "B", " ", "x", "+"}

SizeInput == UNION {[1 .. n -> SizeChar] : n \in 0 .. MaxSize}

to_lowercase(ch) ==
    CASE ch = "G" -> "g"
      [] ch = "B" -> "b"
      [] OTHER -> ch

is_alphabetic(ch) == ch \in {"k", "m", "g", "t", "b", "x", "G", "B"}

DigitValue(ch) == IF ch = "1" THEN 1 ELSE 2

\* The decimal value of a sequence of digits.
RECURSIVE Decimal(_)
Decimal(ds) ==
    IF ds = <<>> THEN 0
    ELSE 10 * Decimal(SubSeq(ds, 1, Len(ds) - 1)) + DigitValue(ds[Len(ds)])

\* u64::from_str: digits, after an optional plus sign.
u64_from_str(str) ==
    LET ds == IF str # <<>> /\ str[1] = "+" THEN Tail(str) ELSE str
    IN  IF ds # <<>> /\ \A i \in 1 .. Len(ds) : ds[i] \in Digit
        THEN [ok |-> TRUE, v |-> Decimal(ds)]
        ELSE [ok |-> FALSE, v |-> 0]

\* to_lowercase().replace(" ", "")
Normalised(str) ==
    LET low == [i \in 1 .. Len(str) |-> to_lowercase(str[i])]
    IN  SelectSeq(low, LAMBDA ch : ch # " ")

strip_suffix_b(str) ==
    IF str # <<>> /\ str[Len(str)] = "b" THEN SubSeq(str, 1, Len(str) - 1) ELSE str

SizeResult(ok, v, error) == [fn |-> "size", ok |-> ok, v |-> v, error |-> error]

NotValid == "is not a valid size"
TooSmall == "size can only be specified in megabytes or larger"

\* parse_size: the size in MiB, or the error.
parse_size(orig_input) ==
    LET stripped == strip_suffix_b(Normalised(orig_input))
        last_ch == IF stripped = <<>> THEN "_" ELSE stripped[Len(stripped)]
        unit == is_alphabetic(last_ch)
        number == IF unit THEN SubSeq(stripped, 1, Len(stripped) - 1) ELSE stripped
        modifier == CASE last_ch = "g" -> 1024
                      [] last_ch = "t" -> 1024 * 1024
                      [] OTHER -> 1
        n == u64_from_str(number)
    IN  IF unit /\ last_ch = "k" THEN SizeResult(FALSE, 0, TooSmall)
        ELSE IF unit /\ last_ch \notin {"m", "g", "t"} THEN SizeResult(FALSE, 0, NotValid)
        ELSE IF number = <<>> THEN SizeResult(FALSE, 0, NotValid)
        ELSE IF ~n.ok THEN SizeResult(FALSE, 0, NotValid)
        ELSE SizeResult(TRUE, n.v * modifier, "")

SizeParse ==
    /\ Applied
    /\ out' = parse_size(arg)

InitSize == InitFn /\ arg \in SizeInput /\ poll = NoPoll

NextSize == SizeParse

SpecSize == InitSize /\ [][NextSize]_vars

-----------------------------------------------------------------------------
\* SpecPci: PCIAddress::from_str and PCIAddress::to_string.

HEX == <<"0", "1", "2", "3", "4", "5", "6", "7", "8", "9",
         "a", "b", "c", "d", "e", "f">>

UPPER == <<"0", "1", "2", "3", "4", "5", "6", "7", "8", "9",
           "A", "B", "C", "D", "E", "F">>

\* The hex digits of the inputs.
PciDigit == {"0", "1", "f"}

IsHex(ch) == \E i \in 1 .. 16 : HEX[i] = ch \/ UPPER[i] = ch

HexValue(ch) == (CHOOSE i \in 1 .. 16 : HEX[i] = ch \/ UPPER[i] = ch) - 1

\* The inputs: dddd:bb:ss.f, bb:ss.f, ss.f and ss over the digits, and a few
\* that are not addresses.
Joined(a, b, c, d) == a \o <<":">> \o b \o <<":">> \o c \o <<".">> \o d

PciInput ==
    {Joined(a, b, c, d) : a \in [1 .. 4 -> PciDigit], b \in [1 .. 2 -> PciDigit],
                          c \in [1 .. 2 -> PciDigit], d \in [1 .. 1 -> PciDigit]}
    \cup {b \o <<":">> \o c \o <<".">> \o d :
            b \in [1 .. 2 -> PciDigit], c \in [1 .. 2 -> PciDigit],
            d \in [1 .. 1 -> PciDigit]}
    \cup {c \o <<".">> \o d : c \in [1 .. 2 -> PciDigit], d \in [1 .. 1 -> PciDigit]}
    \cup [1 .. 2 -> PciDigit]
    \cup {<<>>, <<":">>, <<".">>, <<"F", "F", ":", "0", "1", ".", "0">>,
          <<"0", "0", "0", "0", ":", "0", "F", ":", "0", "0", ".", "0">>,
          <<"1", "0", "0", ":", "0", "0", ".", "0">>, <<"0", "0", ":", "0", "0">>,
          <<"0", ":", "1", ".", "1", ".", "1">>, <<"g", "0", ":", "0", "0", ".", "0">>}

\* The pieces of str between the separators, in order.
RECURSIVE Pieces(_, _)
Pieces(str, sep) ==
    IF \A i \in 1 .. Len(str) : str[i] # sep THEN <<str>>
    ELSE LET i == CHOOSE k \in 1 .. Len(str) :
                     str[k] = sep /\ \A j \in 1 .. k - 1 : str[j] # sep
         IN  <<SubSeq(str, 1, i - 1)>> \o Pieces(SubSeq(str, i + 1, Len(str)), sep)

RECURSIVE HexNumber(_)
HexNumber(ds) ==
    IF ds = <<>> THEN 0
    ELSE 16 * HexNumber(SubSeq(ds, 1, Len(ds) - 1)) + HexValue(ds[Len(ds)])

\* from_str_radix(str, 16) into an unsigned type of the given number of hex
\* digits: digits after an optional plus sign, of a value the type holds.
from_str_radix(str, width) ==
    LET ds == IF str # <<>> /\ str[1] = "+" THEN Tail(str) ELSE str
        \* leading zeros do not count
        RECURSIVE Significant(_)
        Significant(x) ==
            IF x # <<>> /\ x[1] = "0" THEN Significant(Tail(x)) ELSE x
    IN  IF ds = <<>> \/ \E i \in 1 .. Len(ds) : ~IsHex(ds[i])
        THEN [ok |-> FALSE, v |-> 0]
        ELSE IF Len(Significant(ds)) > width THEN [ok |-> FALSE, v |-> 0]
        ELSE [ok |-> TRUE, v |-> HexNumber(Significant(ds))]

PCIAddress(domain, bus, slot, func) ==
    [domain |-> domain, bus |-> bus, slot |-> slot, func |-> func]

\* from_str: the last piece between colons is slot.func, the one before it
\* the bus, the one before that the domain; what is missing stays 0.
from_str(str) ==
    LET segs == Pieces(str, ":")
        n == Len(segs)
        sf == Pieces(segs[n], ".")
        slot == from_str_radix(sf[1], 2)
        func == IF Len(sf) >= 2 THEN from_str_radix(sf[2], 2) ELSE [ok |-> TRUE, v |-> 0]
        bus == IF n >= 2 THEN from_str_radix(segs[n - 1], 2) ELSE [ok |-> TRUE, v |-> 0]
        domain == IF n >= 3 THEN from_str_radix(segs[n - 2], 8)
                  ELSE [ok |-> TRUE, v |-> 0]
    IN  IF slot.ok /\ func.ok /\ bus.ok /\ domain.ok
        THEN [ok |-> TRUE, addr |-> PCIAddress(domain.v, bus.v, slot.v, func.v)]
        ELSE [ok |-> FALSE, addr |-> PCIAddress(0, 0, 0, 0)]

\* {:0<width>x}: the lower-case hex digits of n, padded with zeros.
RECURSIVE LowerHex(_, _)
LowerHex(n, width) ==
    IF n < 16 /\ width <= 1 THEN <<HEX[n + 1]>>
    ELSE LowerHex(n \div 16, width - 1) \o <<HEX[(n % 16) + 1]>>

\* A variant of to_string that formats as Display does without the alternate
\* flag: no domain.
to_string_Display(a) ==
    LowerHex(a.bus, 2) \o <<":">> \o LowerHex(a.slot, 2) \o <<".">> \o LowerHex(a.func, 1)

\* PCIAddress::to_string: "{:04x}:{:02x}:{:02x}.{:x}"
to_string(a) ==
    LowerHex(a.domain, 4) \o <<":">> \o LowerHex(a.bus, 2) \o <<":">>
        \o LowerHex(a.slot, 2) \o <<".">> \o LowerHex(a.func, 1)

\* Display::fmt: the domain is written only with the alternate flag and only
\* when it is 0.
fmt(a, alternate) ==
    (IF alternate /\ a.domain = 0 THEN LowerHex(a.domain, 4) \o <<":">> ELSE <<>>)
        \o LowerHex(a.bus, 2) \o <<":">> \o LowerHex(a.slot, 2) \o <<".">>
        \o LowerHex(a.func, 1)

\* The round trip of the test: from_str, then to_string of the address; and
\* the address as the sysfs paths write it, format!("{:#}", addr).
PciParse ==
    /\ Applied
    /\ LET r == from_str(arg)
       IN  out' = [fn |-> "pci", ok |-> r.ok, addr |-> r.addr,
                   text |-> IF r.ok THEN to_string(r.addr) ELSE <<>>,
                   sysfs |-> IF r.ok THEN fmt(r.addr, TRUE) ELSE <<>>]

InitPci == InitFn /\ arg \in PciInput /\ poll = NoPoll

NextPci == PciParse

SpecPci == InitPci /\ [][NextPci]_vars

-----------------------------------------------------------------------------
\* SpecBuffer: LookingGlassConfig::calc_buffer_size_from_screen. The widths
\* are scaled and keep their order: u64 has WordBits bits, the significand of
\* f64 MantissaBits bits (53 of 64), and a MiB is 2^MiBBits (2^20).

WordBits == 8

MantissaBits == 4

MiBBits == 1

MaxSide == 3

BufWord == 2 ^ WordBits

MiB == 2 ^ MiBBits

Screen == [width : 0 .. MaxSide, height : 0 .. MaxSide, bit_depth : 0 .. BufWord - 1]

\* The number of bits of n.
RECURSIVE BitLen(_)
BitLen(n) == IF n = 0 THEN 0 ELSE 1 + BitLen(n \div 2)

\* n as f64: the nearest number with MantissaBits significant bits, ties to
\* the even significand.
as_f64(n) ==
    IF BitLen(n) <= MantissaBits THEN n
    ELSE LET ulp == 2 ^ (BitLen(n) - MantissaBits)
             lo == n - (n % ulp)
             rem == n % ulp
         IN  IF 2 * rem < ulp THEN lo
             ELSE IF 2 * rem > ulp THEN lo + ulp
             ELSE IF (lo \div ulp) % 2 = 0 THEN lo ELSE lo + ulp

\* (x / 8f64).ceil() as u64: dividing by 8 is exact.
ceil_eighth(x) == (x + 7) \div 8

\* a * b and a + b in u64: the build either checks for overflow and panics,
\* or wraps.
Times(a, b, checks) ==
    IF a.panic THEN a
    ELSE IF a.v * b >= BufWord /\ checks THEN [panic |-> TRUE, v |-> 0]
    ELSE [panic |-> FALSE, v |-> (a.v * b) % BufWord]

Plus(a, b, checks) ==
    IF a.panic THEN a
    ELSE IF a.v + b >= BufWord /\ checks THEN [panic |-> TRUE, v |-> 0]
    ELSE [panic |-> FALSE, v |-> (a.v + b) % BufWord]

\* ((self.bit_depth * 4) as f64 / 8f64).ceil() as u64
pixel(bit_depth, checks) ==
    LET bits == Times([panic |-> FALSE, v |-> bit_depth], 4, checks)
    IN  IF bits.panic THEN bits
        ELSE [panic |-> FALSE, v |-> ceil_eighth(as_f64(bits.v))]

\* width * height * pixel, twice, plus 2 MiB
minimum_needed(c, checks) ==
    LET px == pixel(c.bit_depth, checks)
        wh == Times([panic |-> FALSE, v |-> c.width], c.height, checks)
        frame == IF px.panic THEN px ELSE Times(wh, px.v, checks)
    IN  Plus(Times(frame, 2, checks), 2 * MiB, checks)

\* while buffer_size < minimum_needed { i += 1; buffer_size = 2u64.pow(i); }
\* A power that u64 does not hold panics in a build that checks, and is 0 in
\* one that wraps, where the loop does not end.
RECURSIVE grow(_, _, _, _)
grow(i, buffer_size, minimum, checks) ==
    IF buffer_size >= minimum THEN [result |-> "ok", buffer_size |-> buffer_size]
    ELSE IF i + 1 >= WordBits
         THEN [result |-> IF checks THEN "panic" ELSE "hang", buffer_size |-> 0]
         ELSE grow(i + 1, 2 ^ (i + 1), minimum, checks)

calc_buffer_size_from_screen(c, checks) ==
    LET m == minimum_needed(c, checks)
    IN  IF m.panic THEN [result |-> "panic", buffer_size |-> 0]
        ELSE grow(1, 1, m.v, checks)

BufferCalc ==
    /\ Applied
    /\ \E checks \in BOOLEAN :
         LET r == calc_buffer_size_from_screen(arg, checks)
         IN  out' = [fn |-> "buffer", result |-> r.result,
                     buffer_size |-> r.buffer_size]

InitBuffer == InitFn /\ arg \in Screen /\ poll = NoPoll

NextBuffer == BufferCalc

SpecBuffer == InitBuffer /\ [][NextBuffer]_vars

-----------------------------------------------------------------------------
\* SpecPoll: the wait of VirtualMachine::start for the control socket of the
\* child it spawned.
\*   at: "first" before the first connect, "loop" at the head of the while
\*   loop, "done" once the closure has the stream or has failed; time is the
\*   counter of the code, rounds counts the sleeps, connected says whether the
\*   last connect succeeded.

\* let mut time = 30
PollBudget == 30

\* What try_wait says in a round.
TryWait == {"running", "exited", "error"}

\* UnixStream::connect before the loop.
PollConnect ==
    /\ poll.at = "first"
    /\ \E c \in BOOLEAN :
         poll' = [poll EXCEPT !.connected = c,
                              !.at = IF c THEN "done" ELSE "loop",
                              !.result = IF c THEN "connected" ELSE "none"]
    /\ UNCHANGED <<vmVars, daemonVars, reply, codecVars, vfioVars, fsVars, boot,
                   arg, out>>

\* if time < 0: the error of the last connect is returned.
PollGiveUp ==
    /\ poll.at = "loop"
    /\ poll.time < 0
    /\ poll' = [poll EXCEPT !.at = "done", !.result = "timeout"]
    /\ UNCHANGED <<vmVars, daemonVars, reply, codecVars, vfioVars, fsVars, boot,
                   arg, out>>

\* One round of the loop: sleep a second, connect, try_wait, time -= 1.
PollRound ==
    /\ poll.at = "loop"
    /\ poll.time >= 0
    /\ \E c \in BOOLEAN, w \in TryWait :
         poll' = CASE w = "exited" ->
                        [poll EXCEPT !.rounds = @ + 1, !.connected = c,
                                     !.at = "done", !.result = "early"]
                   [] w = "error" ->
                        [poll EXCEPT !.rounds = @ + 1, !.connected = c,
                                     !.at = "done", !.result = "error"]
                   [] OTHER ->
                        [poll EXCEPT !.rounds = @ + 1, !.connected = c,
                                     !.time = @ - 1,
                                     !.at = IF c THEN "done" ELSE "loop",
                                     !.result = IF c THEN "connected" ELSE "none"]
    /\ UNCHANGED <<vmVars, daemonVars, reply, codecVars, vfioVars, fsVars, boot,
                   arg, out>>

InitPoll ==
    /\ InitFn
    /\ arg = NoCall
    /\ poll = [at |-> "first", time |-> PollBudget, rounds |-> 0,
               connected |-> FALSE, result |-> "none"]

NextPoll ==
    \/ PollConnect
    \/ PollGiveUp
    \/ PollRound

SpecPoll == InitPoll /\ [][NextPoll]_vars

\* The closure runs on: no step of it waits for anything but the sleep.
SpecPollLive == SpecPoll /\ WF_vars(NextPoll)

-----------------------------------------------------------------------------
\* SpecBus: get_next_bus and get_counter of the VirtualMachine that a build
\* script sees (qemu.rs), called in any order by the script.

MaxCalls == 4

BusName == {"pci", "usb"}

Seed == {0, 5}

\* The calls a script makes.
Call == [fn : {"get_next_bus"}, name : BusName, start : {0}]
            \cup [fn : {"get_counter"}, name : BusName, start : Seed]

Calls == UNION {[1 .. n -> Call] : n \in 0 .. MaxCalls}

\* bus_ids.entry(name).and_modify(|x| *x += 1).or_insert(v)
entry_bump(bus_ids, name, v) ==
    [n \in DOMAIN bus_ids \cup {name} |->
        IF n # name THEN bus_ids[n]
        ELSE IF name \in DOMAIN bus_ids THEN bus_ids[name] + 1 ELSE v]

\* get_next_bus: "{name}.{id}", the text as the pair of its parts.
get_next_bus(bus_ids, name) ==
    LET b == entry_bump(bus_ids, name, 0)
    IN  [bus_ids |-> b, ret |-> <<name, b[name]>>]

\* get_counter
get_counter(bus_ids, name, seed) ==
    LET b == entry_bump(bus_ids, name, seed)
    IN  [bus_ids |-> b, ret |-> b[name]]

\* The script's calls in order, on the bus_ids of a new VirtualMachine: what
\* each returned.
RECURSIVE run_calls(_, _)
run_calls(bus_ids, calls) ==
    IF calls = <<>> THEN <<>>
    ELSE LET c == Head(calls)
             r == IF c.fn = "get_next_bus" THEN get_next_bus(bus_ids, c.name)
                  ELSE get_counter(bus_ids, c.name, c.start)
         IN  <<r.ret>> \o run_calls(r.bus_ids, Tail(calls))

BusCalls ==
    /\ Applied
    /\ out' = [fn |-> "bus", ret |-> run_calls(<<>>, arg)]

InitBus == InitFn /\ arg \in Calls /\ poll = NoPoll

NextBus == BusCalls

SpecBus == InitBus /\ [][NextBus]_vars

-----------------------------------------------------------------------------
\* SpecBuilder: QemuCommandBuilder::list_presets and build, and the clean_up
\* that ends both (qemu.rs).

PresetName == {"qcow2", "raw"}

\* What running the script did and what the environment does afterwards:
\*   eval: the script ran without error; build_command: it called
\*   vore:set_build_command; disk_presets: the presets it registered; call:
\*   the build function returned a VirtualMachine; owners: the strong
\*   references to the storage when clean_up looks; gc: gc_collect succeeds.
ScriptRun ==
    [op : {"list_presets", "build"}, eval : BOOLEAN, build_command : BOOLEAN,
     disk_presets : SUBSET PresetName, call : BOOLEAN, owners : {1, 2},
     gc : BOOLEAN]

\* clean_up: remove the global, collect, take the storage out of its Arc if
\* nothing else owns it, unwrap build_command and remove the registry values.
clean_up(r) ==
    IF ~r.gc THEN "err"
    ELSE IF r.owners > 1 THEN "err"
    ELSE IF ~r.build_command THEN "panic"
    ELSE "ok"

\* list_presets: run the script, collect the presets, clean up.
list_presets(r) ==
    IF ~r.eval THEN [result |-> "err", presets |-> {}]
    ELSE LET c == clean_up(r)
         IN  [result |-> c, presets |-> IF c = "ok" THEN r.disk_presets ELSE {}]

\* build: run the script, call the build function if one is registered,
\* clean up.
build(r) ==
    IF ~r.eval \/ ~r.build_command \/ ~r.call THEN [result |-> "err", presets |-> {}]
    ELSE [result |-> clean_up(r), presets |-> {}]

BuilderRun ==
    /\ Applied
    /\ LET r == IF arg.op = "list_presets" THEN list_presets(arg) ELSE build(arg)
       IN  out' = [fn |-> "builder", result |-> r.result, presets |-> r.presets]

InitBuilder == InitFn /\ arg \in ScriptRun /\ poll = NoPoll

NextBuilder == BuilderRun

SpecBuilder == InitBuilder /\ [][NextBuilder]_vars

-----------------------------------------------------------------------------
\* Properties of the daemon loop (Spec)

\* C1: the requests one connection wrote are executed in the order they were
\* written, and their responses are written in that order (a connection
\* numbers its requests 0, 1, ... as it writes them).
C1_WriteOrder ==
    /\ \A i, j \in 1 .. Len(exec_log) :
          (i < j /\ exec_log[i].origin = exec_log[j].origin)
              => exec_log[i].id < exec_log[j].id
    /\ \A i, j \in 1 .. Len(responses) :
          (i < j /\ responses[i].origin = responses[j].origin)
              => responses[i].id < responses[j].id

\* The responses carrying id k that connection j was sent.
Carrying(j, k) ==
    Cardinality({i \in 1 .. Len(responses) :
                    responses[i].to = j /\ responses[i].id = k})

Executed(j, k) ==
    \E i \in 1 .. Len(exec_log) : exec_log[i].origin = j /\ exec_log[i].id = k

Connected(j) == \E i \in 1 .. Len(connections) : connections[i] = j

\* C2: a connection never receives two responses carrying the same id, and
\* once the command queue is drained every request parsed from a connection
\* that is still open has exactly one response on that connection.
C2_ExactlyOneResponse ==
    \A j \in 1 .. Len(clients) : \A k \in 0 .. MaxReqs :
        /\ Carrying(j, k) <= 1
        /\ (pc = "wait" /\ Executed(j, k) /\ clients[j].open /\ Connected(j))
              => Carrying(j, k) = 1

\* C3: no error of a handler (boop, a read, accept, a re-arm, the write of a
\* response) makes run return: the loop ends on a signal only.
C3_LoopEndsOnSignalOnly == pc # "failed"

\* C8: when a signal ends the daemon, SIGINT or SIGTERM, the listener socket
\* file has been removed.
C8_GracefulExit == pc \in {"ended", "killed"} => ~socket_file

-----------------------------------------------------------------------------
\* Properties of one VirtualMachine (SpecVM)

\* C4: a Running machine has a child handle, a live child and a control socket.
C4_RunningHasChild ==
    vm.state = "Running" => vm.process # 0 /\ vm.alive /\ vm.control_socket # 0

\* C5: a Loaded machine has no child handle and no control socket.
C5_LoadedHasNothing ==
    vm.state = "Loaded" => vm.process = 0 /\ vm.control_socket = 0

\* A start that failed in prepare: the machine is still Loaded.
C5_Witness == vm.state = "Loaded" /\ last.op = "start" /\ ~last.ok

\* The commands the machine executes over QMP; the nop of boop is the poll of
\* the socket, not one of them.
QmpCommand == {"qmp_capabilities", "cont", "stop", "system_powerdown", "quit"}

C9_FailedStartPrepared ==
    (last.op = "start" /\ ~last.ok /\ last.spawned)
        => vm.state = "Prepared" /\ vm.process = 0

\* C10: a start that succeeds on a machine that was not running leaves the
\* machine Running, which is the state info reports.
C10_StartedIsRunning ==
    (last.op = "start" /\ last.ok /\ ~(last.pre.process # 0 /\ last.pre.alive))
        => info(vm).state = "Running"

\* A restart that succeeded, after the earlier child shut down.
C10_Witness ==
    /\ last.op = "start" /\ last.ok /\ last.spawned
    /\ last.pre.state = "Stopped"
    /\ vm.state = "Running"

-----------------------------------------------------------------------------
\* Properties of the registry (SpecDispatch)

\* C7: every machine is registered under its own name, so that no two
\* registered machines have the same name.
C7_NamesUnique ==
    /\ \A n \in DOMAIN machines : name_of(machines[n]) = n
    /\ \A n1, n2 \in DOMAIN machines :
          name_of(machines[n1]) = name_of(machines[n2]) => n1 = n2

\* Two machines are registered, one of them after a start made it more than
\* a fresh entry.
C7_Witness ==
    /\ Cardinality(DOMAIN machines) = 2
    /\ \E n \in DOMAIN machines : machines[n].state = "Running"

-----------------------------------------------------------------------------
\* More properties of one VirtualMachine (SpecVM, SpecVMLive)

\* C11: start on a machine whose state is Running is a no-op: it succeeds,
\* spawns nothing, sends nothing and leaves the machine as it was.
C11_StartOnRunningNoOp ==
    (last.op = "start" /\ last.pre.state = "Running")
        => /\ last.ok
           /\ ~last.spawned
           /\ last.sent = {}
           /\ vm = last.pre

\* The state table of the events: STOP pauses unless the machine is Stopped,
\* RESUME runs, SHUTDOWN stops, any other event changes nothing.
EventTable(st, e) ==
    IF e = "STOP" THEN (IF st = "Stopped" THEN "Stopped" ELSE "Paused")
    ELSE IF e = "RESUME" THEN "Running"
    ELSE IF e = "SHUTDOWN" THEN "Stopped"
    ELSE st

RECURSIVE EventTableAll(_, _)
EventTableAll(st, evs) ==
    IF evs = <<>> THEN st
    ELSE EventTableAll(EventTable(st, Head(evs)), Tail(evs))

\* C12: a poll that succeeds leaves the machine in the state the table gives
\* for the events that were pending, applied in order to the state before.
C12_EventTable ==
    (last.op = "boop" /\ last.ok /\ last.pre.control_socket # 0)
        => /\ vm.state = EventTableAll(last.pre.state, last.pre.pending)
           /\ vm.pending = <<>>

\* A STOP was processed on a Stopped machine.
C12_Witness ==
    /\ last.op = "boop" /\ last.ok
    /\ last.pre.state = "Stopped"
    /\ last.pre.pending # <<>> /\ Head(last.pre.pending) = "STOP"

\* C13: once the child of a machine has exited, the machine is eventually
\* Stopped (or has a live child again).
C13_ExitLeadsToStopped ==
    (vm.process # 0 /\ ~vm.alive) ~> (vm.state = "Stopped" \/ vm.alive)

\* C14: prepare succeeds exactly when every sub-step succeeded; a success
\* moves Loaded to Prepared and leaves every other state; a failure leaves the
\* machine as it was.
C14_PrepareSteps ==
    last.op = "prepare"
        => /\ last.ok <=> (\A f \in DOMAIN last.steps : last.steps[f])
           /\ last.ok => vm.state = IF last.pre.state = "Loaded" THEN "Prepared"
                                    ELSE last.pre.state
           /\ ~last.ok => vm = last.pre

\* prepare failed in one sub-step only, on a Loaded machine.
C14_Witness ==
    /\ last.op = "prepare" /\ ~last.ok
    /\ last.pre.state = "Loaded"
    /\ Cardinality({f \in DOMAIN last.steps : ~last.steps[f]}) = 1

-----------------------------------------------------------------------------
\* Properties of command dispatch (SpecDispatch)

\* C15: a Prepare, Start, Stop or Kill request that names no registered
\* machine fails with "No machine with the name X exists" and changes nothing
\* of the registry, the machines, the event targets and the poller.
C15_UnknownName ==
    (reply.query \in {"prepare", "start", "stop", "kill"} /\ ~reply.known)
        => /\ ~reply.ok
           /\ reply.error = <<"No machine with the name ", reply.name, " exists">>
           /\ reply.changed = {}

\* Start named a machine that is not registered while another one is running.
C15_Witness ==
    /\ reply.query = "start" /\ ~reply.known
    /\ \E n \in DOMAIN machines : machines[n].state = "Running"

\* C16: the tag of a successful response is the tag of its request.
C16_PairedResponse == reply.ok => reply.answer = reply.query

-----------------------------------------------------------------------------
\* Properties of the line codec (SpecCodec)

\* The newline-terminated lines of a byte sequence, in order, and the bytes
\* after its last newline.
RECURSIVE Scan(_, _, _)
Scan(b, cur, acc) ==
    IF b = <<>> THEN [lines |-> acc, rest |-> cur]
    ELSE IF Head(b) = "n" THEN Scan(Tail(b), <<>>, Append(acc, cur))
    ELSE Scan(Tail(b), Append(cur, Head(b)), acc)

Lines(b) == Scan(b, <<>>, <<>>).lines

Rest(b) == Scan(b, <<>>, <<>>).rest

\* A line is the text of a request.
IsRequest(l) == l = <<"a", "b">> \/ l = <<"b", "a">>

Requests(ls) == SelectSeq(ls, IsRequest)

Cmds(cs) == [i \in 1 .. Len(cs) |-> cs[i].cmd]

\* C17: whatever way the bytes were split over reads, once the daemon has read
\* all that was written on an open connection, the requests dispatched are the
\* newline-terminated lines written, in order, and the bytes of the
\* unterminated line are in the buffer.
C17_LinesAcrossReads ==
    (slot_open /\ stream = <<>>)
        => /\ Cmds(dispatched) = Requests(Lines(written))
           /\ buffer = Rest(written)

\* The input of the last handle_input has a complete line that is no request.
BadLine(ls) == \E i \in 1 .. Len(ls) : ls[i] # <<>> /\ ~IsRequest(ls[i])

\* C18: a handle_input that meets a line that does not parse, on a stream that
\* is open, drops that line only: the connection stays open, the other
\* complete lines are dispatched in order, the unterminated rest is kept for
\* the lines to come.
C18_BadLineDropped ==
    (~input.eof /\ BadLine(Lines(input.data)))
        => /\ input.still_open /\ slot_open
           /\ Cmds(input.commands) = Requests(Lines(input.data))
           /\ buffer = Rest(input.data)

\* A batch with a line that does not parse, followed by a request.
C18_Witness ==
    /\ ~input.eof
    /\ \E i, j \in 1 .. Len(Lines(input.data)) :
          /\ i < j
          /\ Lines(input.data)[i] # <<>> /\ ~IsRequest(Lines(input.data)[i])
          /\ IsRequest(Lines(input.data)[j])
    /\ input.commands # <<>>

\* C19: when the peer closes with an unterminated line in the buffer, the slot
\* is emptied, the buffer dropped, and the unterminated line is not dispatched.
C19_PartialDropped ==
    (input.eof /\ Rest(input.data) # <<>>)
        => /\ ~slot_open
           /\ buffer = <<>>
           /\ Cmds(input.commands) = Requests(Lines(input.data))

-----------------------------------------------------------------------------
\* Properties of VFIO preparation (SpecVfio)

\* C20: a device for which prepare_vfio returned Ok is bound to vfio-pci when
\* it returns, whatever its driver was and whatever execute_fixes and force.
C20_OkMeansVfio ==
    \A d \in vfio.devs :
        (d \in DOMAIN vfio.results /\ vfio.results[d]) => host[d] = "vfio-pci"

\* A device of an ordinary driver was rebound with success.
C20_Witness ==
    \E d \in vfio.devs :
        /\ d \in DOMAIN vfio.results /\ vfio.results[d]
        /\ vfio.before[d] = "e1000"
        /\ host[d] = "vfio-pci"

\* C21: a device that is not bound to vfio-pci is refused without a write to
\* unbind, driver_override or drivers_probe, and keeps its driver, when
\* execute_fixes is false or its driver is blacklisted and force is false;
\* with force a blacklisted driver that is prepared with success has been
\* unbound, overridden and probed like any other.
C21_RefusalWritesNothing ==
    \A d \in vfio.devs :
        d \in DOMAIN vfio.results =>
            /\ (/\ vfio.before[d] # "vfio-pci"
                /\ \/ ~vfio.execute_fixes
                   \/ (vfio.before[d] \in AUTO_UNBIND_BLACKLIST /\ ~vfio.force))
                   => /\ ~vfio.results[d]
                      /\ vfio.writes[d] = {}
                      /\ host[d] = vfio.before[d]
            /\ (/\ vfio.before[d] \in AUTO_UNBIND_BLACKLIST
                /\ vfio.execute_fixes /\ vfio.force /\ vfio.results[d])
                   => /\ vfio.writes[d] = {"unbind", "driver_override", "drivers_probe"}
                      /\ host[d] = "vfio-pci"

\* A blacklisted device was refused with execute_fixes set, and another was
\* rebound under force.
C21_Witness ==
    /\ \E d \in vfio.devs :
        /\ d \in DOMAIN vfio.results /\ ~vfio.results[d]
        /\ vfio.before[d] = "nvidia" /\ vfio.execute_fixes /\ ~vfio.force
        /\ host[d] = "nvidia"
    /\ \E d \in Dev : host[d] = "vfio-pci"

-----------------------------------------------------------------------------
\* Properties of Kill (SpecDispatch)

-----------------------------------------------------------------------------
\* Properties of a machine on its host (SpecHost)

\* C22: while the machine is Running, every VFIO device of its config is
\* bound to vfio-pci.
C22_RunningMeansVfio ==
    vm.state = "Running" => \A d \in MachineDevs : host[d] = "vfio-pci"

\* The host is in the state prepare aims at: the devices are bound to
\* vfio-pci, the paths are set and their directories exist.
InTargetState(h, ds, ps) ==
    /\ \A d \in MachineDevs : h[d] = "vfio-pci"
    /\ ps.mem_path # "" /\ ps.mem_path \in ds
    /\ ps.socket_path # "" /\ ps.socket_path \in ds

\* C23: a prepare of a machine that was prepared before, on a host in the
\* target state, writes to no sysfs file, creates no directory, leaves the
\* drivers, the machine state and the configured paths as they were, and
\* succeeds when the disks, the module and the driver links can be read.
C23_PrepareIdempotent ==
    (/\ last.op = "prepare"
     /\ last.pre.state # "Loaded"
     /\ InTargetState(last.host, last.dirs, last.paths))
        => /\ \A d \in DOMAIN last.writes : last.writes[d] = {}
           /\ host = last.host
           /\ dirs = last.dirs
           /\ paths = last.paths
           /\ vm.state = last.pre.state
           /\ last.cooperates => last.ok

\* A second prepare of a Prepared machine with a path of its own succeeded on
\* a host in the target state.
C23_Witness ==
    /\ last.op = "prepare" /\ last.ok
    /\ last.pre.state = "Prepared"
    /\ InTargetState(last.host, last.dirs, last.paths)
    /\ last.paths.mem_path = "custom"
    /\ last.writes = [d \in MachineDevs |-> {}]

-----------------------------------------------------------------------------
\* Properties of the startup (SpecStartup)

\* The place of a step in the startup.
Rank(step) ==
    CASE step = "load" -> 1
      [] step = "reserve" -> 2
      [] step = "start" -> 3
      [] OTHER -> 4

Steps(step) == SelectSeq(boot.log, LAMBDA x : x.step = step)

StepNames(step) == {Steps(step)[i].name : i \in 1 .. Len(Steps(step))}

\* C25: run tries every definition file, without saving, before it reserves
\* a device; reserves every device flagged for it, with execute_fixes and
\* force, before it starts a machine; starts every machine flagged auto-start
\* before it handles a request; a file that does not load, a reservation or a
\* start that fails is logged and the remaining steps are taken.
C25_StartupOrder ==
    /\ \A i, j \in 1 .. Len(boot.log) :
          i < j => Rank(boot.log[i].step) <= Rank(boot.log[j].step)
    /\ \A i \in 1 .. Len(boot.log) :
          /\ boot.log[i].step = "load" => ~boot.log[i].save
          /\ boot.log[i].step = "reserve"
                => boot.log[i].execute_fixes /\ boot.log[i].force
    /\ pc \in {"reserve", "autostart", "wait"}
          => /\ Len(Steps("load")) = Len(boot.files)
             /\ \A i \in 1 .. Len(boot.files) :
                   /\ Steps("load")[i].name = boot.files[i].name
                   /\ Steps("load")[i].ok = boot.files[i].ok
             /\ \A i \in 1 .. Len(boot.files) :
                   boot.files[i].ok => boot.files[i].name \in DOMAIN machines
    /\ pc \in {"autostart", "wait"} => StepNames("reserve") = boot.reserve
    /\ pc = "wait" => StepNames("start") = boot.auto_start

\* A file did not load, a reservation and an auto-start failed, each
\* followed by a later step of its kind, and a request was handled.
C25_Witness ==
    /\ pc = "wait"
    /\ \E i, j \in 1 .. Len(boot.log) :
          /\ i < j /\ boot.log[i].step = "reserve" /\ boot.log[j].step = "reserve"
          /\ ~boot.log[i].ok /\ boot.log[j].ok
    /\ \E i, j \in 1 .. Len(boot.log) :
          /\ i < j /\ boot.log[i].step = "start" /\ boot.log[j].step = "start"
          /\ ~boot.log[i].ok /\ boot.log[j].ok
    /\ Steps("request") # <<>>

-----------------------------------------------------------------------------
\* Properties of the CPU table (SpecCpu)

\* The field of a table, or its default when the table omits it.
Given(table, key) == IF table[key] = Absent THEN CpuDefault[key] ELSE table[key]

\* sockets * dies * cores * threads of a table, and of a config.
TableProduct(table) ==
    Given(table, "sockets") * Given(table, "dies") * Given(table, "cores")
        * Given(table, "threads")

Product(c) == c.sockets * c.dies * c.cores * c.threads

\* The table gives an amount and a part of the topology, none negative.
AmountAndTopology(table) ==
    /\ table.amount # Absent
    /\ \E k \in Topology : table[k] # Absent
    /\ \A k \in CpuKey : table[k] = Absent \/ table[k] >= 0

\* C26: a table that gives amount and at least one of sockets, dies, cores,
\* threads is accepted iff amount is the product of the four (the defaults for
\* those omitted), and is rejected otherwise with an error that names the
\* product and the amount.
C26_AmountIsProduct ==
    (out.fn = "cpu" /\ AmountAndTopology(arg))
        => /\ out.res = "ok" <=> arg.amount = TableProduct(arg)
           /\ out.res # "ok"
                 => /\ out.res = "error"
                    /\ out.error = <<"differs", TableProduct(arg), arg.amount>>

\* C27: a config that was parsed has amount = sockets * dies * cores * threads;
\* an amount that is omitted is the product; an amount N given alone is split
\* as cores N/2 and threads 2 when N is even, cores N and threads 1 when odd.
C27_ParsedIsConsistent ==
    (out.fn = "cpu" /\ out.res = "ok")
        => /\ out.cfg.amount = Product(out.cfg)
           /\ arg.amount = Absent => out.cfg.amount = TableProduct(arg)
           /\ (arg.amount # Absent /\ \A k \in Topology : arg[k] = Absent)
                 => /\ out.cfg.amount = arg.amount
                    /\ arg.amount % 2 = 0
                          => (out.cfg.cores = arg.amount \div 2 /\ out.cfg.threads = 2)
                    /\ arg.amount % 2 = 1
                          => (out.cfg.cores = arg.amount /\ out.cfg.threads = 1)

-----------------------------------------------------------------------------
\* Properties of size expressions (SpecSize)

\* The input is digits, then the characters of tail.
DigitsThen(str, tail) ==
    /\ Len(str) > Len(tail)
    /\ \A i \in 1 .. Len(str) - Len(tail) : str[i] \in Digit
    /\ SubSeq(str, Len(str) - Len(tail) + 1, Len(str)) = tail

Digits(str) == SelectSeq(str, LAMBDA ch : ch \in Digit)

B == {<<>>, <<"b">>, <<"B">>}

\* C28: digits with a unit m, g or t and an optional b are accepted as that
\* many MiB, times 1024 for g and 1024 * 1024 for t; digits with no unit,
\* with or without the b, are rejected; digits with the unit k are rejected
\* with "size can only be specified in megabytes or larger".
C28_SizeGrammar ==
    out.fn = "size"
        => \A b \in B :
              /\ DigitsThen(arg, <<"m">> \o b)
                    => (out.ok /\ out.v = Decimal(Digits(arg)))
              /\ (DigitsThen(arg, <<"g">> \o b) \/ DigitsThen(arg, <<"G">> \o b))
                    => (out.ok /\ out.v = Decimal(Digits(arg)) * 1024)
              /\ DigitsThen(arg, <<"t">> \o b)
                    => (out.ok /\ out.v = Decimal(Digits(arg)) * 1024 * 1024)
              /\ DigitsThen(arg, b) => ~out.ok
              /\ DigitsThen(arg, <<"k">> \o b) => (~out.ok /\ out.error = TooSmall)

-----------------------------------------------------------------------------
\* Properties of PCI addresses (SpecPci)

LowerDigit(ch) == \E i \in 1 .. 16 : HEX[i] = ch

\* dddd:bb:ss.f
Canonical(str) ==
    /\ Len(str) = 12
    /\ str[5] = ":" /\ str[8] = ":" /\ str[11] = "."
    /\ \A i \in {1, 2, 3, 4, 6, 7, 9, 10, 12} : LowerDigit(str[i])

\* bb:ss.f
WithoutDomain(str) ==
    /\ Len(str) = 7
    /\ str[3] = ":" /\ str[6] = "."
    /\ \A i \in {1, 2, 4, 5, 7} : LowerDigit(str[i])

-----------------------------------------------------------------------------
\* Properties of the buffer size (SpecBuffer)

PowerOfTwo(n) == \E k \in 0 .. WordBits - 1 : n = 2 ^ k

\* width * height * ceil(bit_depth / 2) * 2 + 2 MiB, in the integers.
Needed(c) == c.width * c.height * ((c.bit_depth + 1) \div 2) * 2 + 2 * MiB

\* Nothing the computation does leaves u64: bit_depth * 4 fits, and a power of
\* two that u64 holds reaches what is needed.
NoOverflow(c) ==
    /\ c.bit_depth * 4 < BufWord
    /\ Needed(c) <= 2 ^ (WordBits - 1)

\* C30: where nothing overflows, the buffer size is a power of two, at least
\* width * height * ceil(bit_depth / 2) * 2 + 2 MiB, and the smallest such
\* power of two.
C30_BufferSize ==
    (out.fn = "buffer" /\ NoOverflow(arg))
        => /\ out.result = "ok"
           /\ PowerOfTwo(out.buffer_size)
           /\ out.buffer_size >= Needed(arg)
           /\ \A k \in 0 .. WordBits - 1 :
                2 ^ k >= Needed(arg) => out.buffer_size <= 2 ^ k

-----------------------------------------------------------------------------
\* Properties of the Start handler (SpecDispatch)

\* The machine has a child that has not exited.
ChildAlive(ms, n) == n \in DOMAIN ms /\ ms[n].process # 0 /\ ms[n].alive

\* C31: a Start request for a machine whose child is running answers with the
\* empty success response, registers nothing with the poller and takes no
\* slot of the event-target table.
C31_StartRunningRegistersNothing ==
    [][(reply.query = "-" /\ reply'.query = "start"
            /\ ChildAlive(machines, reply'.name))
        => /\ reply'.ok /\ reply'.answer = "start"
           /\ poller' = poller
           /\ event_key_storage' = event_key_storage]_vars

-----------------------------------------------------------------------------
\* Properties of the event-target table (Spec)

\* The target of a slot refers to something that is there.
TargetLive(t) ==
    CASE t.kind = "RpcConnection" ->
            t.slot \in 1 .. Len(connections) /\ connections[t.slot] # 0
      [] t.kind = "Machine" ->
            t.name \in DOMAIN machines /\ machines[t.name].control_socket # 0
      [] OTHER -> TRUE

\* C32: every event target that is not None refers to the listener, an open
\* connection or a machine with a control socket; no two targets refer to the
\* same connection slot; the table is no longer than the listener, the
\* connection slots and the machines together.
C32_TargetsLive ==
    Running =>
        /\ \A i \in 1 .. Len(event_key_storage) : TargetLive(event_key_storage[i])
        /\ \A i, j \in 1 .. Len(event_key_storage) :
              (event_key_storage[i].kind = "RpcConnection"
                  /\ event_key_storage[i] = event_key_storage[j]) => i = j
        /\ Len(event_key_storage)
              <= 1 + Len(connections) + Cardinality(DOMAIN machines)

-----------------------------------------------------------------------------
\* Properties of the wait for the control socket (SpecPoll)

\* C33: start sleeps and retries at most 30 times; a child that is seen to
\* have exited ends the wait with the early-exit error in that round, whatever
\* the connect of the round gave; a wait that gave up made 30 rounds.
C33_PollBudget ==
    /\ poll.rounds <= 30
    /\ poll.result = "timeout" => (poll.rounds = 30 /\ ~poll.connected)
    /\ poll.result = "early" => poll.at = "done"

\* The wait ends.
PollEnds == <>(poll.at = "done")

-----------------------------------------------------------------------------
\* Properties of the counters of a build script (SpecBus)

\* The calls of fn for name among the first i calls.
Before(calls, i, fn, name) ==
    {j \in 1 .. i : calls[j].fn = fn /\ calls[j].name = name}

\* The start given by the first get_counter call for name.
SeedOf(calls, name) ==
    LET S == Before(calls, Len(calls), "get_counter", name)
    IN  calls[CHOOSE j \in S : \A k \in S : j <= k].start

\* C34: the k-th get_next_bus(name) returns name.(k-1), and the k-th
\* get_counter(name, ..) returns the start of the first one plus k-1, however
\* the calls are interleaved and whatever names they use.
C34_Counters ==
    out.fn = "bus" =>
        \A i \in 1 .. Len(arg) :
            LET k == Cardinality(Before(arg, i, arg[i].fn, arg[i].name))
            IN  IF arg[i].fn = "get_next_bus"
                THEN out.ret[i] = <<arg[i].name, k - 1>>
                ELSE out.ret[i] = SeedOf(arg, arg[i].name) + k - 1

-----------------------------------------------------------------------------
\* Properties of the command builder (SpecBuilder)

\* C35: list_presets and build end with a value, Ok or an error, never with a
\* panic, and with an error when something else still owns the storage.
C35_CleanUpFailsExplicitly ==
    out.fn = "builder" =>
        /\ out.result \in {"ok", "err"}
        /\ (arg.eval /\ arg.owners > 1) => out.result = "err"

-----------------------------------------------------------------------------
\* Properties of the answers (Spec)

\* C36: every response is written to the connection whose request it
\* answers.
C36_ResponseToSender ==
    \A i \in 1 .. Len(responses) : responses[i].to = responses[i].origin

-----------------------------------------------------------------------------
\* Properties of the machines' control sockets (SpecStartup)

\* The control socket of machine n is registered under the key of a Machine
\* target of that name.
Watched(n) ==
    \E r \in poller :
        /\ r.src = VmSrc(n, machines[n].control_socket)
        /\ r.key \in 1 .. Len(event_key_storage)
        /\ event_key_storage[r.key] = Machine(n)

\* C37: while the daemon waits, every machine that has a control socket
\* attached has it registered with the poller under a Machine target.
C37_SocketsWatched ==
    pc = "wait" =>
        \A n \in DOMAIN machines : machines[n].control_socket # 0 => Watched(n)

-----------------------------------------------------------------------------
\* Properties of Load (SpecDispatch)

\* C38: a Load request that names a machine whose child is running leaves that
\* machine, with its child, in the registry.
C38_LoadKeepsLiveMachine ==
    [][(reply.query = "-" /\ reply'.query = "load"
            /\ ChildAlive(machines, reply'.name))
        => /\ reply'.name \in DOMAIN machines'
           /\ machines'[reply'.name].process = machines[reply'.name].process]_vars

-----------------------------------------------------------------------------
\* Properties of the control socket (SpecVM)

\* C39: an attached control socket comes with a child process handle, and it
\* is the socket of that child.
C39_SocketOfCurrentChild ==
    vm.control_socket # 0
        => (vm.process # 0 /\ vm.control_socket = vm.process)

-----------------------------------------------------------------------------
\* Properties of the sysfs form of a PCI address (SpecPci)

\* C40: the alternate Display form of every address is its full form,
\* domain:bus:slot.function, and parses back to the address.
C40_SysfsFormIsFull ==
    (out.fn = "pci" /\ out.ok)
        => /\ out.sysfs = to_string(out.addr)
           /\ from_str(out.sysfs) = [ok |-> TRUE, addr |-> out.addr]

=============================================================================
